---- MODULE Spec2Model ----
(***************************************************************************)
(* Retrieval layer of the legal-code assistant: article-reference          *)
(* normalisation, exact article lookup, hybrid semantic search and the     *)
(* rendering of their results, as built by app/tools/factory.py, listed    *)
(* by app/tools/registry.py and written out per code in                    *)
(* app/tools/vector_search.py, and the agent of app/agent.py invoking      *)
(* them for a conversation thread.                                         *)
(*                                                                         *)
(* Text is a sequence of characters.  A character is a one-character       *)
(* string for ASCII and the name of its code point ("U+0441") otherwise.   *)
(***************************************************************************)
EXTENDS Integers, Sequences, FiniteSets, TLC

VARIABLES
    norm,       \* harness of the pure normaliser: input, flag, key, re-normalised key
    store,      \* the external vector store: collection name -> sequence of payloads
    COLLECTION_NAME,    \* vector_search.COLLECTION_NAME, read from QDRANT_COLLECTION at import
    built,      \* corpus key -> number of QdrantVectorStore handles constructed so far
    call,       \* the capability invocation being answered (tool, corpus, arguments, fault)
    calls,      \* the backend calls that invocation issued, in order
    outcome,    \* what the invocation gave its caller: a returned string or an exception
    fmt,        \* harness of the two renderers: the records given and the text rendered
    ALL_TOOLS,  \* registry.ALL_TOOLS: the capabilities built by the factory, in order
    threads,    \* the checkpointer: thread id -> the tool calls remembered for that thread
    answers,    \* log of the fault-free retrievals made so far: arguments, thread, result
    tasks,      \* chat session -> the retrieval call it has in flight, step by step
    split,      \* harness of _split_for_telegram: text, max_len, start, parts
    _checkpointer,  \* agent._checkpointer: None or the InMemorySaver built
    _agent_ref,     \* agent._agent_ref: the dict that holds the agent once built
    made,       \* objects constructed by get_agent so far, and what its calls returned
    chat        \* handle_user_message at work: the message, the agent call, the replies

harnesses == <<norm, fmt>>
session == <<threads, answers>>
front == <<tasks, split, _checkpointer, _agent_ref, made, chat>>

vars == <<norm, store, COLLECTION_NAME, built, call, calls, outcome, fmt, ALL_TOOLS,
          threads, answers, tasks, split, _checkpointer, _agent_ref, made, chat>>

----------------------------------------------------------------------------
(* Bounds of the model *)

MaxLen == 3         \* longest enumerated raw string given to the normaliser
MaxCite == 2        \* longest enumerated citation given to an exact lookup
MaxRecords == 2     \* longest enumerated store content (besides the bulk contents)
MaxTopK == 2        \* top_k is enumerated from -MaxTopK to MaxTopK (besides the default)
MaxBuilds == 2      \* handle constructions counted in one run, over all corpus keys
MaxDocs == 2        \* longest enumerated record sequence given to a renderer
MaxCodes == 3       \* most codes the registry loop is followed through
MaxToolCalls == 2   \* most capability invocations the agent makes in one run
MaxText == 5        \* longest enumerated text given to _split_for_telegram
MaxSplitLen == 4    \* max_len of _split_for_telegram is enumerated from 1 to MaxSplitLen

----------------------------------------------------------------------------
(* Characters and text *)

Chars(s) == [i \in 1..Len(s) |-> SubSeq(s, i, i)]

CyrEs == "U+0441"       \* Cyrillic small letter es
CyrTe == "U+0442"       \* Cyrillic small letter te
CyrA == "U+0430"        \* Cyrillic small letter a
CyrSoft == "U+044C"     \* Cyrillic small letter soft sign
CyrYa == "U+044F"       \* Cyrillic small letter ya
CyrGhe == "U+0413"      \* Cyrillic capital letter ghe
CyrEl == "U+043B"       \* Cyrillic small letter el
CyrVe == "U+0432"       \* Cyrillic small letter ve
CyrEsCap == "U+0421"    \* Cyrillic capital letter es
CyrO == "U+043E"        \* Cyrillic small letter o
CyrDe == "U+0434"       \* Cyrillic small letter de
CyrIe == "U+0435"       \* Cyrillic small letter ie
CyrEr == "U+0440"       \* Cyrillic small letter er
CyrZhe == "U+0436"      \* Cyrillic small letter zhe
CyrEn == "U+043D"       \* Cyrillic small letter en
CyrI == "U+0438"        \* Cyrillic small letter i
CyrEm == "U+043C"       \* Cyrillic small letter em
Sup2 == "U+00B2"        \* superscript two: str.isdigit() is True, int() rejects it

DecimalDigits == {"0", "1", "2", "3", "4", "5", "6", "7", "8", "9"}

\* str.isdigit() of one character: decimal digits and the other Unicode digits.
isdigit(ch) == ch \in DecimalDigits \cup {Sup2}

\* str.isspace() of one character.
isspace(ch) == ch \in {" ", "\t", "\n"}

\* str.strip(): leading and trailing whitespace removed.
RECURSIVE lstrip(_)
lstrip(s) == IF s # <<>> /\ isspace(Head(s)) THEN lstrip(Tail(s)) ELSE s

RECURSIVE rstrip(_)
rstrip(s) ==
    IF s # <<>> /\ isspace(s[Len(s)]) THEN rstrip(SubSeq(s, 1, Len(s) - 1)) ELSE s

strip(s) == rstrip(lstrip(s))

\* "not s or not str(s).strip()": the blank-argument test of every capability.
IsBlank(s) == s = <<>> \/ strip(s) = <<>>

DigitValue(ch) ==
    CASE ch = "0" -> 0 [] ch = "1" -> 1 [] ch = "2" -> 2 [] ch = "3" -> 3
      [] ch = "4" -> 4 [] ch = "5" -> 5 [] ch = "6" -> 6 [] ch = "7" -> 7
      [] ch = "8" -> 8 [] ch = "9" -> 9

\* int(s) succeeds on a non-empty run of decimal digits and raises ValueError on
\* anything else a canonical key can hold (a ".", a non-decimal Unicode digit).
IntParses(s) == s # <<>> /\ \A i \in 1..Len(s) : s[i] \in DecimalDigits

RECURSIVE IntOf(_)
IntOf(s) ==
    IF s = <<>> THEN 0 ELSE IntOf(SubSeq(s, 1, Len(s) - 1)) * 10 + DigitValue(s[Len(s)])

\* str(n) of a non-negative integer.
StrOfInt(n) == Chars(ToString(n))

----------------------------------------------------------------------------
(* Article Reference Normalizer *)

\* A filter that deletes while it iterates: after every deleted character the
\* next one is skipped unexamined.
RECURSIVE SkippingFilter(_, _)
SkippingFilter(raw, allow_fractional) ==
    IF raw = <<>> THEN <<>>
    ELSE IF isdigit(Head(raw)) \/ (allow_fractional /\ Head(raw) = ".")
         THEN <<Head(raw)>> \o SkippingFilter(Tail(raw), allow_fractional)
         ELSE IF Len(raw) = 1 THEN <<>>
              ELSE <<raw[2]>> \o SkippingFilter(SubSeq(raw, 3, Len(raw)), allow_fractional)

\* A normaliser that keeps "." whatever the flag.
_normalize_keeping_dot(raw, allow_fractional) ==
    SelectSeq(raw, LAMBDA ch : isdigit(ch) \/ ch = ".")

_normalize_article_number(raw, allow_fractional) ==
    IF allow_fractional
    THEN SelectSeq(raw, LAMBDA ch : isdigit(ch) \/ ch = ".")
    ELSE SelectSeq(raw, LAMBDA ch : isdigit(ch))

----------------------------------------------------------------------------
(* Inputs *)

Alphabet == {"1", "0", ".", " ", CyrEs, Sup2}

RECURSIVE StringsUpTo(_)
StringsUpTo(n) ==
    IF n = 0 THEN {<<>>}
    ELSE LET shorter == StringsUpTo(n - 1)
         IN  shorter \cup {Append(s, ch) : s \in {t \in shorter : Len(t) = n - 1}, ch \in Alphabet}

\* Queries of a semantic search: empty, blank, and Cyrillic words ("moshennichestvo"
\* abridged to its first letters).
QueryWord == <<CyrEm, CyrO>>
Queries == {<<>>, <<" ">>, <<" ", "\n">>, QueryWord, <<" ">> \o QueryWord}

CiteSt129 == <<CyrEs, CyrTe, ".", " ", "1", "2", ".", "9">>          \* "st. 12.9" in Cyrillic
CiteStatya159 == <<CyrEs, CyrTe, CyrA, CyrTe, CyrSoft, CyrYa, " ", "1", "5", "9">>
CiteSt == <<CyrEs, CyrTe, ".">>                                      \* "st." in Cyrillic
CiteStatya == <<CyrEs, CyrTe, CyrA, CyrTe, CyrSoft, CyrYa>>
CiteSpaces == <<" ", " ", " ">>

DocumentedCitations == {CiteSt129, CiteStatya159, CiteSt, CiteStatya, CiteSpaces, Chars("10")}

RawStrings == StringsUpTo(MaxLen) \cup DocumentedCitations

----------------------------------------------------------------------------
(* Values of a payload: Python str, int, dict and None, kept apart by a tag *)

StrVal(s) == [t |-> "str", s |-> s]
IntVal(n) == [t |-> "int", n |-> n]
DictVal(d) == [t |-> "dict", d |-> d]
None == [t |-> "none"]
EmptyDict == DictVal(<<>>)

\* dict.get(key): the value, or None when the key is absent.
get(dict, key) == IF key \in DOMAIN dict.d THEN dict.d[key] ELSE None

\* Truth value of a Python object: None, "", 0 and {} are false.
Truthy(v) ==
    CASE v.t = "none" -> FALSE
      [] v.t = "str" -> v.s # <<>>
      [] v.t = "int" -> v.n # 0
      [] v.t = "dict" -> DOMAIN v.d # {}

\* a or b
Or(a, b) == IF Truthy(a) THEN a ELSE b

\* "{v}" inside an f-string, for the strings and non-negative integers that reach it.
Interpolate(v) ==
    CASE v.t = "str" -> v.s
      [] v.t = "int" -> StrOfInt(v.n)

----------------------------------------------------------------------------
(* The external store: one collection per corpus key, read only *)

Collections == {"APK-RF", "uk_1996", "gk_1994", "koap_2001"}

\* The body of an article of collection c: every code has its own text.
Body(c) == Chars(c)

\* Article 10 with full metadata, its number stored as a string.
ArticleStr(c) ==
    DictVal([page_content |-> StrVal(Body(c) \o Chars("/s")),
             metadata |-> DictVal([chapter_number |-> IntVal(2),
                                   chapter_title |-> StrVal(Chars("Ch")),
                                   article_number |-> StrVal(Chars("10")),
                                   article_title |-> StrVal(Chars("Ti"))])])

\* Article 10 without chapter or title, its number stored as an integer and its
\* body under "text".
ArticleInt(c) ==
    DictVal([text |-> StrVal(Body(c) \o Chars("/i")),
             metadata |-> DictVal([article_number |-> IntVal(10)])])

\* Article 12.9 of a code with compound numbers.
ArticleFrac(c) ==
    DictVal([page_content |-> StrVal(Body(c) \o Chars("/f")),
             metadata |-> DictVal([article_number |-> StrVal(Chars("12.9")),
                                   article_title |-> StrVal(Chars("Fr"))])])

\* Article 159, its number stored as an integer.
Article159(c) ==
    DictVal([page_content |-> StrVal(Body(c) \o Chars("/159")),
             metadata |-> DictVal([chapter_number |-> IntVal(21),
                                   article_number |-> IntVal(159),
                                   article_title |-> StrVal(Chars("Fraud"))])])

\* A record with chapter metadata and a body but no article metadata.
ArticleUnnumbered(c) ==
    DictVal([page_content |-> StrVal(Body(c) \o Chars("/u")),
             metadata |-> DictVal([chapter_number |-> IntVal(2),
                                   chapter_title |-> StrVal(Chars("Ch"))])])

EnumeratedKinds == {"str", "int", "frac"}

\* "bare" is a record with an empty payload: no metadata and no body at all.
Payload(kind, c) ==
    CASE kind = "str" -> ArticleStr(c)
      [] kind = "int" -> ArticleInt(c)
      [] kind = "frac" -> ArticleFrac(c)
      [] kind = "159" -> Article159(c)
      [] kind = "unnumbered" -> ArticleUnnumbered(c)
      [] kind = "bare" -> EmptyDict

RECURSIVE ShapesUpTo(_)
ShapesUpTo(n) ==
    IF n = 0 THEN {<<>>}
    ELSE LET shorter == ShapesUpTo(n - 1)
         IN  shorter \cup {Append(s, k) : s \in {t \in shorter : Len(t) = n - 1},
                                          k \in EnumeratedKinds}

ScrollLimit == 10       \* limit=10 of client.scroll
DefaultTopK == 5        \* top_k: int = 5

\* More copies of article 10 than one scroll returns, the last one stored as an integer.
BulkShape == [i \in 1..(ScrollLimit + 1) |-> IF i <= ScrollLimit THEN "str" ELSE "int"]

\* The contents a collection is given: a sequence of payload kinds.
Shapes == ShapesUpTo(MaxRecords) \cup {BulkShape, <<"159">>, <<"str", "159">>}

StoreOf(shape) == [c \in Collections |-> [i \in 1..Len(shape) |-> Payload(shape[i], c)]]

\* A should-condition FieldCondition(key="metadata.article_number", match=MatchValue(v))
\* holds of a payload whose metadata.article_number is v, type and all.
ConditionHolds(payload, v) ==
    LET meta == get(payload, "metadata")
    IN  /\ meta.t = "dict"
        /\ get(meta, "article_number") = v

FilterMatches(payload, should) == \E i \in 1..Len(should) : ConditionHolds(payload, should[i])

Range(seq) == {seq[i] : i \in 1..Len(seq)}

FirstN(s, n) == IF Len(s) <= n THEN s ELSE SubSeq(s, 1, n)

\* A scroll that ignores its limit: every point that satisfies the filter.
ScrollUnlimited(st, collection_name, should, limit) ==
    SelectSeq(st[collection_name], LAMBDA p : FilterMatches(p, should))

\* client.scroll(collection_name, scroll_filter=Filter(should), limit): the first
\* `limit` points of the collection that satisfy the filter, in stored order.
Scroll(st, collection_name, should, limit) ==
    FirstN(SelectSeq(st[collection_name], LAMBDA p : FilterMatches(p, should)), limit)

\* The record of one scroll in the call log, with the points it returned.
ScrollCall(collection_name, should, points) ==
    [op |-> "scroll", collection |-> collection_name, should |-> should,
     limit |-> ScrollLimit, returned |-> points]

----------------------------------------------------------------------------
(* Results of a function body: a returned value or a raised exception *)

Return(text) == [kind |-> "return", value |-> text]
Raise(message) == [kind |-> "raise", value |-> message]

ConnectionRefused == Chars("connection refused")
InvalidLiteral(s) == Chars("invalid literal for int() with base 10: '") \o s \o Chars("'")
NotADict == Chars("'str' object has no attribute 'get'")

ArticleNumberIsEmpty == Chars("Article number is empty.")
MustContainDigits == Chars("Article number must contain digits.")
NoArticleFound == Chars("No article found with the specified number.")
LookupFailed == Chars("Lookup failed: ")
QueryIsEmpty == Chars("Query is empty.")
NoRelevantDocuments == Chars("No relevant documents found.")
SearchFailed == Chars("Search failed: ")

\* An exception propagates instead of being turned into a string.
Reraise(prefix, result) == result

\* try: ... except Exception as exc: return f"<prefix>{exc}"
Caught(prefix, result) ==
    IF result.kind = "raise" THEN Return(prefix \o result.value) ELSE result

GlavaLabel == <<CyrGhe, CyrEl, CyrA, CyrVe, CyrA>> \o Chars(": ")
StatyaLabel == <<CyrEsCap, CyrTe, CyrA, CyrTe, CyrSoft, CyrYa>> \o Chars(": ")
NomerOpen == Chars(" (") \o <<CyrEn, CyrO, CyrEm, CyrIe, CyrEr>> \o Chars(": ")
SoderzhanieLabel ==
    <<CyrEsCap, CyrO, CyrDe, CyrIe, CyrEr, CyrZhe, CyrA, CyrEn, CyrI, CyrIe>> \o Chars(": ")

\* The four-line block of one record.
Block(idx, chapter_title, chapter_num, article_title, article_num, content) ==
    Chars("[") \o StrOfInt(idx) \o Chars("]\n")
        \o GlavaLabel \o Interpolate(chapter_title)
        \o NomerOpen \o Interpolate(chapter_num) \o Chars(")\n")
        \o StatyaLabel \o Interpolate(article_title)
        \o NomerOpen \o Interpolate(article_num) \o Chars(")\n")
        \o SoderzhanieLabel \o Interpolate(content)

\* "\n\n".join(lines)
RECURSIVE JoinBlocks(_)
JoinBlocks(lines) ==
    IF lines = <<>> THEN <<>>
    ELSE IF Len(lines) = 1 THEN lines[1]
    ELSE lines[1] \o Chars("\n\n") \o JoinBlocks(Tail(lines))

\* The block the exact lookup renders for point p, or the AttributeError of
\* meta.get when the payload's "metadata" is no dict.
PointBlock(idx, p, normalized) ==
    LET payload == Or(p, EmptyDict)
        meta == Or(get(payload, "metadata"), payload)
    IN  IF meta.t # "dict" THEN Raise(NotADict)
        ELSE Return(Block(idx,
                          Or(get(meta, "chapter_title"), StrVal(<<>>)),
                          Or(get(meta, "chapter_number"), StrVal(<<>>)),
                          Or(get(meta, "article_title"), StrVal(<<>>)),
                          Or(get(meta, "article_number"), StrVal(normalized)),
                          Or(Or(get(payload, "page_content"), get(payload, "text")),
                             StrVal(<<>>))))

\* The loop over the points and the final join.
FormatPoints(points, normalized) ==
    LET blocks == [i \in 1..Len(points) |-> PointBlock(i, points[i], normalized)]
    IN  IF \E i \in 1..Len(points) : blocks[i].kind = "raise"
        THEN Raise(NotADict)
        ELSE Return(JoinBlocks([i \in 1..Len(points) |-> blocks[i].value]))

\* The scroll and the rendering without the test for an empty result: no points
\* are joined to the empty string.
ScrollAndFormatUntested(st, collection_name, should, normalized, fault) ==
    IF fault = "store" \/ collection_name \notin DOMAIN st
    THEN [result |-> Raise(ConnectionRefused), points |-> <<>>]
    ELSE LET points == Scroll(st, collection_name, should, ScrollLimit)
         IN  [result |-> FormatPoints(points, normalized), points |-> points]

\* The scroll and the rendering with an empty result handed to the formatter of
\* the semantic search.
ScrollAndFormatViaFormatter(st, collection_name, should, normalized, fault) ==
    IF fault = "store" \/ collection_name \notin DOMAIN st
    THEN [result |-> Raise(ConnectionRefused), points |-> <<>>]
    ELSE LET points == Scroll(st, collection_name, should, ScrollLimit)
         IN  [result |-> IF points = <<>> THEN Return(NoRelevantDocuments)
                         ELSE FormatPoints(points, normalized),
              points |-> points]

\* What follows the construction of the filter: the scroll and the rendering.
ScrollAndFormat(st, collection_name, should, normalized, fault) ==
    IF fault = "store" \/ collection_name \notin DOMAIN st
    THEN [result |-> Raise(ConnectionRefused), points |-> <<>>]
    ELSE LET points == Scroll(st, collection_name, should, ScrollLimit)
         IN  [result |-> IF points = <<>> THEN Return(NoArticleFound)
                         ELSE FormatPoints(points, normalized),
              points |-> points]

NormIdle == [pc |-> "idle", raw |-> <<>>, allow_fractional |-> FALSE,
             key |-> <<>>, rekey |-> <<>>]

NoCall == [tool |-> "none"]
NoOutcome == [kind |-> "none"]

\* A reply of the capability: what the caller gets and the backend calls made.
Reply(outcome_, calls_) == [outcome |-> outcome_, calls |-> calls_]

\* The filter with the string condition alone.
ShouldStringOnly(normalized) == <<StrVal(normalized)>>

\* should = [string condition] plus, when int() accepts the key, the integer
\* condition; a ValueError of int() is swallowed by the inner try.
ShouldOfKey(normalized) ==
    <<StrVal(normalized)>>
        \o (IF IntParses(normalized) THEN <<IntVal(IntOf(normalized))>> ELSE <<>>)

\* exact_tool without its test for a blank citation: the citation is normalised
\* whatever it is.
exact_tool_unguarded(st, collection_name, allow_fractional_articles, article_number, fault) ==
    LET normalized == _normalize_article_number(article_number, allow_fractional_articles)
    IN  IF normalized = <<>> THEN Reply(Return(MustContainDigits), <<>>)
        ELSE LET should == IF "." \notin {normalized[i] : i \in 1..Len(normalized)}
                           THEN <<StrVal(normalized)>>
                                    \o (IF IntParses(normalized)
                                        THEN <<IntVal(IntOf(normalized))>> ELSE <<>>)
                           ELSE <<StrVal(normalized)>>
                 body == ScrollAndFormat(st, collection_name, should, normalized, fault)
             IN  Reply(Caught(LookupFailed, body.result),
                       <<ScrollCall(collection_name, should, body.points)>>)

\* factory.create_code_tools(...).exact_tool
exact_tool(st, collection_name, allow_fractional_articles, article_number, fault) ==
    IF IsBlank(article_number) THEN Reply(Return(ArticleNumberIsEmpty), <<>>)
    ELSE LET normalized == _normalize_article_number(article_number, allow_fractional_articles)
         IN  IF normalized = <<>> THEN Reply(Return(MustContainDigits), <<>>)
             ELSE LET should == IF "." \notin {normalized[i] : i \in 1..Len(normalized)}
                                THEN ShouldOfKey(normalized)
                                ELSE <<StrVal(normalized)>>
                      body == ScrollAndFormat(st, collection_name, should, normalized, fault)
                  IN  Reply(Caught(LookupFailed, body.result),
                            <<ScrollCall(collection_name, should, body.points)>>)

\* vector_search.get_uk_1996_by_article: digits only, the module's COLLECTION_NAME
get_uk_1996_by_article(st, collection_name, article_number, fault) ==
    IF IsBlank(article_number) THEN Reply(Return(ArticleNumberIsEmpty), <<>>)
    ELSE LET digits == SelectSeq(article_number, isdigit)
         IN  IF digits = <<>> THEN Reply(Return(MustContainDigits), <<>>)
             ELSE LET should == ShouldOfKey(digits)
                      body == ScrollAndFormat(st, collection_name, should, digits, fault)
                  IN  Reply(Caught(LookupFailed, body.result),
                            <<ScrollCall(collection_name, should, body.points)>>)

\* vector_search.get_gk_1994_by_article, the form of every other non-fractional
\* code: int(digits) is evaluated inside the outer try, guarded by digits.isdigit()
\* only, so its ValueError ends the lookup.
get_gk_1994_by_article(st, article_number, fault) ==
    IF IsBlank(article_number) THEN Reply(Return(ArticleNumberIsEmpty), <<>>)
    ELSE LET digits == SelectSeq(article_number, isdigit)
         IN  IF digits = <<>> THEN Reply(Return(MustContainDigits), <<>>)
             ELSE IF ~IntParses(digits)
                  THEN Reply(Caught(LookupFailed, Raise(InvalidLiteral(digits))), <<>>)
                  ELSE LET should == <<StrVal(digits), IntVal(IntOf(digits))>>
                           body == ScrollAndFormat(st, "gk_1994", should, digits, fault)
                       IN  Reply(Caught(LookupFailed, body.result),
                                 <<ScrollCall("gk_1994", should, body.points)>>)

\* vector_search.get_koap_2001_by_article: digits and "." kept
get_koap_2001_by_article(st, article_number, fault) ==
    IF IsBlank(article_number) THEN Reply(Return(ArticleNumberIsEmpty), <<>>)
    ELSE LET normalized == SelectSeq(article_number, LAMBDA ch : isdigit(ch) \/ ch = ".")
         IN  IF normalized = <<>> THEN Reply(Return(MustContainDigits), <<>>)
             ELSE LET should == IF "." \notin {normalized[i] : i \in 1..Len(normalized)}
                                THEN ShouldOfKey(normalized)
                                ELSE <<StrVal(normalized)>>
                      body == ScrollAndFormat(st, "koap_2001", should, normalized, fault)
                  IN  Reply(Caught(LookupFailed, body.result),
                            <<ScrollCall("koap_2001", should, body.points)>>)

----------------------------------------------------------------------------
(* Hybrid semantic search *)

\* The Document langchain builds from a point: its page_content and metadata.
Document(payload) ==
    [page_content |-> Or(get(payload, "page_content"), StrVal(<<>>)),
     metadata |-> Or(get(payload, "metadata"), EmptyDict)]

\* A search that resumes after the hits its earlier handles of the collection
\* were given: the result depends on the searches made before.
similarity_search_resuming(st, collection_name, query, k) ==
    LET seen == built[collection_name]
        rest == IF seen >= Len(st[collection_name]) THEN <<>>
                ELSE SubSeq(st[collection_name], seen + 1, Len(st[collection_name]))
        hits == FirstN(rest, k)
    IN  [i \in 1..Len(hits) |-> Document(hits[i])]

\* store.similarity_search(query, k): the k most relevant articles of the
\* collection; the engine's relevance order is the stored order.
similarity_search(st, collection_name, query, k) ==
    LET hits == FirstN(st[collection_name], k)
    IN  [i \in 1..Len(hits) |-> Document(hits[i])]

\* The block of document d numbered as enumerate() numbers without start=1.
DocBlockFromZero(i, d) ==
    LET meta == Or(d.metadata, EmptyDict)
    IN  Block(i - 1,
              Or(get(meta, "chapter_title"), StrVal(<<>>)),
              Or(get(meta, "chapter_number"), StrVal(<<>>)),
              Or(get(meta, "article_title"), StrVal(<<>>)),
              Or(get(meta, "article_number"), StrVal(<<>>)),
              Or(d.page_content, StrVal(<<>>)))

\* The block _format_docs renders for document d.
DocBlock(i, d) ==
    LET meta == Or(d.metadata, EmptyDict)
    IN  Block(i,
              Or(get(meta, "chapter_title"), StrVal(<<>>)),
              Or(get(meta, "chapter_number"), StrVal(<<>>)),
              Or(get(meta, "article_title"), StrVal(<<>>)),
              Or(get(meta, "article_number"), StrVal(<<>>)),
              Or(d.page_content, StrVal(<<>>)))

\* The formatter without its test for an empty sequence.
_format_docs_untested(docs) == JoinBlocks([i \in 1..Len(docs) |-> DocBlock(i, docs[i])])

_format_docs(docs) ==
    IF docs = <<>> THEN NoRelevantDocuments
    ELSE JoinBlocks([i \in 1..Len(docs) |-> DocBlock(i, docs[i])])

\* k = int(top_k), without the lower bound of 1.
UnclampedK(top_k) == top_k

\* k=max(1, int(top_k))
RequestedK(top_k) == IF top_k >= 1 THEN top_k ELSE 1

ConstructCall(collection_name) == [op |-> "construct", collection |-> collection_name]
EmbedCall(query) == [op |-> "embed", query |-> query]
QueryCall(collection_name, k) == [op |-> "query", collection |-> collection_name, k |-> k]

\* similarity_search and _format_docs on a handle of collection_name: the query
\* is embedded, the collection queried, the hits rendered.
SearchAndFormat(st, collection_name, query, top_k, fault) ==
    LET k == RequestedK(top_k)
    IN  IF fault = "embed"
        THEN Reply(Raise(ConnectionRefused), <<EmbedCall(query)>>)
        ELSE IF fault = "store" \/ collection_name \notin DOMAIN st
        THEN Reply(Raise(ConnectionRefused),
                   <<EmbedCall(query), QueryCall(collection_name, k)>>)
        ELSE Reply(Return(_format_docs(similarity_search(st, collection_name, query, k))),
                   <<EmbedCall(query), QueryCall(collection_name, k)>>)

\* The body of the try of a search that constructs its own handle.
ConstructSearchAndFormat(st, collection_name, query, top_k, fault) ==
    IF fault = "construct" \/ collection_name \notin DOMAIN st
    THEN Reply(Raise(ConnectionRefused), <<ConstructCall(collection_name)>>)
    ELSE LET rest == SearchAndFormat(st, collection_name, query, top_k, fault)
         IN  Reply(rest.outcome, <<ConstructCall(collection_name)>> \o rest.calls)

\* The blank-query test moved inside the try, after the handle is constructed.
search_tool_constructs_first(st, collection_name, query, top_k, fault) ==
    LET body == ConstructSearchAndFormat(st, collection_name, query, top_k, fault)
    IN  IF IsBlank(query) /\ body.outcome.kind = "return"
        THEN Reply(Return(QueryIsEmpty), <<ConstructCall(collection_name)>>)
        ELSE Reply(Caught(SearchFailed, body.outcome), body.calls)

\* factory.create_code_tools(...).search_tool; search_gk_1994 and the search of
\* every other code but uk_1996 are this function with the collection written out.
search_tool(st, collection_name, query, top_k, fault) ==
    IF IsBlank(query) THEN Reply(Return(QueryIsEmpty), <<>>)
    ELSE LET body == ConstructSearchAndFormat(st, collection_name, query, top_k, fault)
         IN  Reply(Caught(SearchFailed, body.outcome), body.calls)

\* vector_search.search_uk_1996: the module's vector_store, built at import.
search_uk_1996(st, collection_name, query, top_k, fault) ==
    IF IsBlank(query) THEN Reply(Return(QueryIsEmpty), <<>>)
    ELSE LET body == SearchAndFormat(st, collection_name, query, top_k, fault)
         IN  Reply(Caught(SearchFailed, body.outcome), body.calls)

\* Handles constructed by the calls of one reply.
Constructed(calls_, c) ==
    Cardinality({i \in 1..Len(calls_) : calls_[i].op = "construct" /\ calls_[i].collection = c})

----------------------------------------------------------------------------
(* The factory and the registry of the capabilities it builds *)

search_tool_name(code_key) == Chars("search_") \o code_key

\* A name of the exact lookup that leaves the key out.
exact_tool_name_keyless(code_key) == Chars("get_by_article")

exact_tool_name(code_key) == Chars("get_") \o code_key \o Chars("_by_article")

\* create_code_tools returns (search_tool, exact_tool): each a tool with its name,
\* closed over collection_name and allow_fractional_articles.
create_code_tools(collection_name, code_key, allow_fractional_articles) ==
    <<[name |-> search_tool_name(code_key), mode |-> "search", code_key |-> code_key,
       collection_name |-> collection_name,
       allow_fractional |-> allow_fractional_articles],
      [name |-> exact_tool_name(code_key), mode |-> "exact", code_key |-> code_key,
       collection_name |-> collection_name,
       allow_fractional |-> allow_fractional_articles]>>

\* One iteration of the registry's loop: the key is the collection's name, and
\* the exact tool is appended before the search tool.
RegistryAppend(tools, spec) ==
    LET pair == create_code_tools(spec.collection, Chars(spec.collection),
                                  spec.allow_fractional)
    IN  tools \o <<pair[2], pair[1]>>

\* registry.ALL_TOOLS after import: the loop over the one entry of _CODE_SPECS
\* that is not commented out.
RegistryAtImport == RegistryAppend(<<>>, [collection |-> "APK-RF", allow_fractional |-> FALSE])

\* Thread ids the transport hands to the agent: str(chat_id) of two chats.
ThreadIds == {"1", "2"}
NoThreads == [t \in ThreadIds |-> <<>>]

----------------------------------------------------------------------------
(* Harness of the renderers: pick records, render them as the documents of a
   semantic search or as the points of an exact lookup *)

FmtIdle == [pc |-> "idle", mode |-> "docs", records |-> <<>>, result |-> NoOutcome]

\* The records a renderer is given: complete ones and ones with metadata missing.
RenderedKinds == {"str", "int", "frac", "unnumbered", "bare"}

RECURSIVE KindsUpTo(_)
KindsUpTo(n) ==
    IF n = 0 THEN {<<>>}
    ELSE LET shorter == KindsUpTo(n - 1)
         IN  shorter \cup {Append(s, k) : s \in {t \in shorter : Len(t) = n - 1},
                                          k \in RenderedKinds}

\* The key an exact lookup falls back to for a point without article_number.
RenderedKey == Chars("77")

\* _format_docs gets whatever similarity_search returned, an empty list included;
\* the loop of the exact lookup runs only after "if not points" let it through.
FmtPick ==
    /\ fmt.pc = "idle"
    /\ \E kinds \in KindsUpTo(MaxDocs), mode \in {"docs", "points"} :
          /\ mode = "points" => kinds # <<>>
          /\ fmt' = [pc |-> "picked", mode |-> mode,
                     records |-> [i \in 1..Len(kinds) |-> Payload(kinds[i], "uk_1996")],
                     result |-> NoOutcome]
    /\ UNCHANGED <<front, norm, ALL_TOOLS, session, store, COLLECTION_NAME, built, call, calls, outcome>>

FmtRender ==
    /\ fmt.pc = "picked"
    /\ fmt' = [fmt EXCEPT
                  !.pc = "rendered",
                  !.result =
                      IF fmt.mode = "docs"
                      THEN Return(_format_docs([i \in 1..Len(fmt.records) |->
                                                    Document(fmt.records[i])]))
                      ELSE FormatPoints(fmt.records, RenderedKey)]
    /\ UNCHANGED <<front, norm, ALL_TOOLS, session, store, COLLECTION_NAME, built, call, calls, outcome>>

FmtReset ==
    /\ fmt.pc = "rendered"
    /\ fmt' = FmtIdle
    /\ UNCHANGED <<front, norm, ALL_TOOLS, session, store, COLLECTION_NAME, built, call, calls, outcome>>

----------------------------------------------------------------------------
(* What the backend calls of the retrieval layer do to the store *)

\* A handle constructed with force_recreate: the collection is created anew, empty.
EffectRecreating(st, backend_call) ==
    IF backend_call.op = "construct" /\ backend_call.collection \in DOMAIN st
    THEN [st EXCEPT ![backend_call.collection] = <<>>]
    ELSE st

\* client.scroll and similarity_search read points; the embedding service knows
\* nothing of the store; QdrantVectorStore(...) validates the collection it is
\* given and creates nothing.
Effect(st, backend_call) ==
    CASE backend_call.op = "scroll" -> st
      [] backend_call.op = "query" -> st
      [] backend_call.op = "embed" -> st
      [] backend_call.op = "construct" -> st

\* The store after the backend calls of one invocation, in order.
RECURSIVE StoreAfter(_, _)
StoreAfter(st, backend_calls) ==
    IF backend_calls = <<>> THEN st
    ELSE StoreAfter(Effect(st, Head(backend_calls)), Tail(backend_calls))

----------------------------------------------------------------------------
(* The transport and the agent before anything has happened *)

NoTasks == [t \in ThreadIds |-> [pc |-> "idle"]]

SplitIdle == [pc |-> "idle", text |-> <<>>, max_len |-> 1, start |-> 0, parts |-> <<>>]

\* _checkpointer = None and _agent_ref = {} at import; nothing constructed yet.
NoneRef == [t |-> "none"]
EmptyAgentRef == [k \in {} |-> NoneRef]
NothingMade == [calls |-> 0, savers |-> 0, agents |-> 0, returned |-> <<>>]

\* No message handled yet.
ChatIdle == [pc |-> "idle", handled |-> 0]

InitFront ==
    /\ tasks = NoTasks
    /\ split = SplitIdle
    /\ _checkpointer = NoneRef
    /\ _agent_ref = EmptyAgentRef
    /\ made = NothingMade
    /\ chat = ChatIdle

----------------------------------------------------------------------------
(* The capabilities of the process *)

\* registry._CODE_SPECS: the active entry, and the fractional entry of the list.
CODE_SPECS ==
    {[collection |-> "APK-RF", allow_fractional |-> FALSE],
     [collection |-> "koap_2001", allow_fractional |-> TRUE]}

Citations == StringsUpTo(MaxCite) \cup DocumentedCitations \cup {Chars("12.9")}

ExactFaults == {"none", "store"}

\* Importing vector_search constructs the module's one vector_store, the handle
\* of search_uk_1996; no other handle exists yet.
BuiltAtImport == [c \in Collections |-> IF c = "uk_1996" THEN 1 ELSE 0]

\* An exact tool built by the factory is invoked.
InvokeExactTool(citations) ==
    /\ call = NoCall
    /\ \E spec \in CODE_SPECS, article_number \in citations, fault \in ExactFaults :
        LET reply == exact_tool(store, spec.collection, spec.allow_fractional,
                                article_number, fault)
        IN  /\ call' = [tool |-> "exact", impl |-> "factory", corpus |-> spec.collection,
                        allow_fractional |-> spec.allow_fractional,
                        article_number |-> article_number, fault |-> fault]
            /\ outcome' = reply.outcome
            /\ calls' = reply.calls
            /\ store' = StoreAfter(store, reply.calls)
            /\ UNCHANGED <<front, harnesses, ALL_TOOLS, session, COLLECTION_NAME, built>>

InvokeGetUk1996(citations) ==
    /\ call = NoCall
    /\ \E article_number \in citations, fault \in ExactFaults :
        LET reply == get_uk_1996_by_article(store, COLLECTION_NAME, article_number, fault)
        IN  /\ call' = [tool |-> "exact", impl |-> "uk", corpus |-> "uk_1996",
                        allow_fractional |-> FALSE,
                        article_number |-> article_number, fault |-> fault]
            /\ outcome' = reply.outcome
            /\ calls' = reply.calls
            /\ store' = StoreAfter(store, reply.calls)
            /\ UNCHANGED <<front, harnesses, ALL_TOOLS, session, COLLECTION_NAME, built>>

InvokeGetGk1994(citations) ==
    /\ call = NoCall
    /\ \E article_number \in citations, fault \in ExactFaults :
        LET reply == get_gk_1994_by_article(store, article_number, fault)
        IN  /\ call' = [tool |-> "exact", impl |-> "gk", corpus |-> "gk_1994",
                        allow_fractional |-> FALSE,
                        article_number |-> article_number, fault |-> fault]
            /\ outcome' = reply.outcome
            /\ calls' = reply.calls
            /\ store' = StoreAfter(store, reply.calls)
            /\ UNCHANGED <<front, harnesses, ALL_TOOLS, session, COLLECTION_NAME, built>>

InvokeGetKoap2001(citations) ==
    /\ call = NoCall
    /\ \E article_number \in citations, fault \in ExactFaults :
        LET reply == get_koap_2001_by_article(store, article_number, fault)
        IN  /\ call' = [tool |-> "exact", impl |-> "koap", corpus |-> "koap_2001",
                        allow_fractional |-> TRUE,
                        article_number |-> article_number, fault |-> fault]
            /\ outcome' = reply.outcome
            /\ calls' = reply.calls
            /\ store' = StoreAfter(store, reply.calls)
            /\ UNCHANGED <<front, harnesses, ALL_TOOLS, session, COLLECTION_NAME, built>>

\* top_k as given by the caller: <<>> when the argument is left out.
TopKArguments == {<<>>} \cup {<<k>> : k \in (0 - MaxTopK)..MaxTopK}
TopKOf(argument) == IF argument = <<>> THEN DefaultTopK ELSE argument[1]

SearchFaults == {"none", "construct", "embed", "store"}

TotalBuilt == built["APK-RF"] + built["gk_1994"] + built["koap_2001"]

\* A search tool built by the factory is invoked.
InvokeSearchTool ==
    /\ call = NoCall
    /\ TotalBuilt < MaxBuilds
    /\ \E spec \in CODE_SPECS, query \in Queries, top_k \in TopKArguments,
          fault \in SearchFaults :
        LET reply == search_tool(store, spec.collection, query, TopKOf(top_k), fault)
        IN  /\ call' = [tool |-> "search", impl |-> "factory", corpus |-> spec.collection,
                        query |-> query, top_k |-> top_k, fault |-> fault]
            /\ outcome' = reply.outcome
            /\ calls' = reply.calls
            /\ store' = StoreAfter(store, reply.calls)
            /\ built' = [built EXCEPT ![spec.collection] =
                            @ + (IF fault = "construct" THEN 0
                                 ELSE Constructed(reply.calls, spec.collection))]
            /\ UNCHANGED <<front, harnesses, ALL_TOOLS, session, COLLECTION_NAME>>

InvokeSearchUk1996 ==
    /\ call = NoCall
    /\ \E query \in Queries, top_k \in TopKArguments, fault \in SearchFaults \ {"construct"} :
        LET reply == search_uk_1996(store, COLLECTION_NAME, query, TopKOf(top_k), fault)
        IN  /\ call' = [tool |-> "search", impl |-> "uk", corpus |-> "uk_1996",
                        query |-> query, top_k |-> top_k, fault |-> fault]
            /\ outcome' = reply.outcome
            /\ calls' = reply.calls
            /\ store' = StoreAfter(store, reply.calls)
            /\ UNCHANGED <<front, harnesses, ALL_TOOLS, session, COLLECTION_NAME, built>>

InvokeSearchGk1994 ==
    /\ call = NoCall
    /\ TotalBuilt < MaxBuilds
    /\ \E query \in Queries, top_k \in TopKArguments, fault \in SearchFaults :
        LET reply == search_tool(store, "gk_1994", query, TopKOf(top_k), fault)
        IN  /\ call' = [tool |-> "search", impl |-> "gk", corpus |-> "gk_1994",
                        query |-> query, top_k |-> top_k, fault |-> fault]
            /\ outcome' = reply.outcome
            /\ calls' = reply.calls
            /\ store' = StoreAfter(store, reply.calls)
            /\ built' = [built EXCEPT !["gk_1994"] =
                            @ + (IF fault = "construct" THEN 0
                                 ELSE Constructed(reply.calls, "gk_1994"))]
            /\ UNCHANGED <<front, harnesses, ALL_TOOLS, session, COLLECTION_NAME>>

\* The caller takes the string (or the exception); the next invocation may start.
Deliver ==
    /\ call # NoCall
    /\ call' = NoCall
    /\ calls' = <<>>
    /\ outcome' = NoOutcome
    /\ UNCHANGED <<front, harnesses, ALL_TOOLS, session, store, COLLECTION_NAME, built>>

\* QDRANT_COLLECTION unset, or set to the collection of another code.
Configurations == {"uk_1996", "gk_1994"}

InitExact ==
    /\ norm = NormIdle
    /\ fmt = FmtIdle
    /\ ALL_TOOLS = RegistryAtImport
    /\ threads = NoThreads
    /\ answers = {}
    /\ InitFront
    /\ store \in {StoreOf(shape) : shape \in Shapes}
    /\ COLLECTION_NAME \in Configurations
    /\ built = BuiltAtImport
    /\ call = NoCall
    /\ calls = <<>>
    /\ outcome = NoOutcome

NextExact ==
    InvokeExactTool(Citations) \/ InvokeGetUk1996(Citations) \/ InvokeGetGk1994(Citations) \/ InvokeGetKoap2001(Citations) \/ Deliver

SpecExact == InitExact /\ [][NextExact]_vars

\* The contents given to a collection when searches are followed.
SearchShapes == {<<>>, <<"str">>, <<"int", "frac">>, BulkShape}

InitSearch ==
    /\ norm = NormIdle
    /\ fmt = FmtIdle
    /\ ALL_TOOLS = RegistryAtImport
    /\ threads = NoThreads
    /\ answers = {}
    /\ InitFront
    /\ store \in {StoreOf(shape) : shape \in SearchShapes}
    /\ COLLECTION_NAME \in Configurations
    /\ built = BuiltAtImport
    /\ call = NoCall
    /\ calls = <<>>
    /\ outcome = NoOutcome

NextSearch == InvokeSearchTool \/ InvokeSearchUk1996 \/ InvokeSearchGk1994 \/ Deliver

SpecSearch == InitSearch /\ [][NextSearch]_vars

\* Every capability of the process, on the documented citations and a few more:
\* a plain fractional number, a lone ".", a digit that int() rejects.
SampleCitations == DocumentedCitations \cup {Chars("12.9"), <<".">>, <<Sup2>>}

Init == InitSearch

Next ==
    \/ InvokeExactTool(SampleCitations)
    \/ InvokeGetUk1996(SampleCitations)
    \/ InvokeGetGk1994(SampleCitations)
    \/ InvokeGetKoap2001(SampleCitations)
    \/ InvokeSearchTool
    \/ InvokeSearchUk1996
    \/ InvokeSearchGk1994
    \/ Deliver

Spec == Init /\ [][Next]_vars

----------------------------------------------------------------------------
(* Harness of the normaliser: pick an input, normalise, normalise the key again *)

NormPick ==
    /\ norm.pc = "idle"
    /\ \E raw \in RawStrings, f \in BOOLEAN :
          norm' = [pc |-> "picked", raw |-> raw, allow_fractional |-> f,
                   key |-> <<>>, rekey |-> <<>>]
    /\ UNCHANGED <<front, fmt, ALL_TOOLS, session, store, COLLECTION_NAME, built, call, calls, outcome>>

NormApply ==
    /\ norm.pc = "picked"
    /\ norm' = [norm EXCEPT !.pc = "once",
                            !.key = _normalize_article_number(norm.raw, norm.allow_fractional)]
    /\ UNCHANGED <<front, fmt, ALL_TOOLS, session, store, COLLECTION_NAME, built, call, calls, outcome>>

NormReapply ==
    /\ norm.pc = "once"
    /\ norm' = [norm EXCEPT !.pc = "twice",
                            !.rekey = _normalize_article_number(norm.key, norm.allow_fractional)]
    /\ UNCHANGED <<front, fmt, ALL_TOOLS, session, store, COLLECTION_NAME, built, call, calls, outcome>>

NormReset ==
    /\ norm.pc = "twice"
    /\ norm' = NormIdle
    /\ UNCHANGED <<front, fmt, ALL_TOOLS, session, store, COLLECTION_NAME, built, call, calls, outcome>>

InitNorm ==
    /\ norm = NormIdle
    /\ fmt = FmtIdle
    /\ ALL_TOOLS = RegistryAtImport
    /\ threads = NoThreads
    /\ answers = {}
    /\ InitFront
    /\ store = StoreOf(<<>>)
    /\ COLLECTION_NAME = "uk_1996"
    /\ built = BuiltAtImport
    /\ call = NoCall
    /\ calls = <<>>
    /\ outcome = NoOutcome

NextNorm == NormPick \/ NormApply \/ NormReapply \/ NormReset

SpecNorm == InitNorm /\ [][NextNorm]_vars

InitFormat == InitNorm

NextFormat == FmtPick \/ FmtRender \/ FmtReset

SpecFormat == InitFormat /\ [][NextFormat]_vars

----------------------------------------------------------------------------
(* The registry's loop, followed over any list of codes *)

\* One more entry of _CODE_SPECS is built and appended.
RegisterCode ==
    /\ Len(ALL_TOOLS) < 2 * MaxCodes
    /\ \E collection \in Collections, allow_fractional \in BOOLEAN :
          ALL_TOOLS' = RegistryAppend(ALL_TOOLS, [collection |-> collection,
                                                  allow_fractional |-> allow_fractional])
    /\ UNCHANGED <<front, harnesses, session, store, COLLECTION_NAME, built, call, calls, outcome>>

\* ALL_TOOLS = [] before the loop starts.
InitRegistry ==
    /\ norm = NormIdle
    /\ fmt = FmtIdle
    /\ ALL_TOOLS = <<>>
    /\ threads = NoThreads
    /\ answers = {}
    /\ InitFront
    /\ store = StoreOf(<<>>)
    /\ COLLECTION_NAME = "uk_1996"
    /\ built = BuiltAtImport
    /\ call = NoCall
    /\ calls = <<>>
    /\ outcome = NoOutcome

NextRegistry == RegisterCode

SpecRegistry == InitRegistry /\ [][NextRegistry]_vars

----------------------------------------------------------------------------
(* The agent at work: answer_question(query, thread_id) runs the agent under the
   thread's configuration, and the agent invokes capabilities *)

\* The capabilities built for the codes of CODE_SPECS.
SessionTools ==
    UNION {Range(create_code_tools(spec.collection, Chars(spec.collection),
                                    spec.allow_fractional)) : spec \in CODE_SPECS}

\* The arguments the model (the LLM) gives a capability.
SessionArguments(tool) ==
    IF tool.mode = "exact"
    THEN {[article_number |-> c] : c \in {Chars("10"), CiteStatya159}}
    ELSE {[query |-> QueryWord, top_k |-> k] : k \in {<<>>, <<1>>}}

\* The capability called with the arguments: the thread id is in the agent's
\* config and is no argument of the function.
InvokeTool(tool, arguments, fault) ==
    IF tool.mode = "exact"
    THEN exact_tool(store, tool.collection_name, tool.allow_fractional,
                    arguments.article_number, fault)
    ELSE search_tool(store, tool.collection_name, arguments.query,
                     TopKOf(arguments.top_k), fault)

ToolCallsMade == Len(threads["1"]) + Len(threads["2"])

\* The agent, running for thread_id, invokes a capability; the checkpointer keeps
\* the tool call in the thread's memory.
AgentInvokesTool ==
    /\ call = NoCall
    /\ ToolCallsMade < MaxToolCalls
    /\ \E thread_id \in ThreadIds, tool \in SessionTools, fault \in ExactFaults :
        \E arguments \in SessionArguments(tool) :
            LET reply == InvokeTool(tool, arguments, fault)
                tool_call == [name |-> tool.name, arguments |-> arguments]
            IN  /\ call' = [tool |-> tool.mode, impl |-> "factory",
                            corpus |-> tool.collection_name, name |-> tool.name,
                            arguments |-> arguments, thread_id |-> thread_id,
                            fault |-> fault]
                /\ outcome' = reply.outcome
                /\ calls' = reply.calls
                /\ store' = StoreAfter(store, reply.calls)
                /\ built' = [built EXCEPT ![tool.collection_name] =
                                @ + Constructed(reply.calls, tool.collection_name)]
                /\ threads' = [threads EXCEPT ![thread_id] = Append(@, tool_call)]
                /\ answers' = IF fault # "none" THEN answers
                              ELSE answers \cup {[tool_call |-> tool_call,
                                                  thread_id |-> thread_id,
                                                  earlier |-> ToolCallsMade,
                                                  result |-> reply.outcome]}
                /\ UNCHANGED <<front, harnesses, ALL_TOOLS, COLLECTION_NAME>>

\* A store with several articles, so that what a search returns depends on
\* how many hits it asks for and from where.
InitSession ==
    /\ norm = NormIdle
    /\ fmt = FmtIdle
    /\ ALL_TOOLS = RegistryAtImport
    /\ threads = NoThreads
    /\ answers = {}
    /\ InitFront
    /\ store \in {StoreOf(<<"str", "frac", "159">>), StoreOf(<<"int", "str">>)}
    /\ COLLECTION_NAME = "uk_1996"
    /\ built = BuiltAtImport
    /\ call = NoCall
    /\ calls = <<>>
    /\ outcome = NoOutcome

NextSession == AgentInvokesTool \/ Deliver

SpecSession == InitSession /\ [][NextSession]_vars

----------------------------------------------------------------------------
(* Retrieval calls of two chat sessions in flight together: each call's steps
   (argument tests, fetch from the store, rendering, return) interleave with
   the other's *)

\* The agent's tools here: the two capabilities of the registry's active code.
ConcurrentTools == Range(RegistryAtImport)

ConcurrentArguments(tool) ==
    IF tool.mode = "exact"
    THEN {[article_number |-> c] : c \in {Chars("10"), CiteSpaces}}
    ELSE {[query |-> QueryWord, top_k |-> <<1>>], [query |-> <<" ">>, top_k |-> <<>>]}

\* The agent of chat t issues a tool call.
TaskCall(t) ==
    /\ tasks[t].pc = "idle"
    /\ Len(threads[t]) < MaxToolCalls
    /\ \E tool \in ConcurrentTools :
        \E arguments \in ConcurrentArguments(tool) :
            tasks' = [tasks EXCEPT ![t] = [pc |-> "called", tool |-> tool,
                                           arguments |-> arguments]]
    /\ UNCHANGED <<harnesses, ALL_TOOLS, session, store, COLLECTION_NAME, built,
                   call, calls, outcome, split, _checkpointer, _agent_ref, made, chat>>

\* The tests on the argument before the try: blank, and for a citation no digits.
TaskCheck(t) ==
    /\ tasks[t].pc = "called"
    /\ LET tool == tasks[t].tool
           arguments == tasks[t].arguments
           done(text) == [pc |-> "done", tool |-> tool, arguments |-> arguments,
                          result |-> Return(text)]
       IN  tasks' = [tasks EXCEPT ![t] =
              IF tool.mode = "search"
              THEN IF IsBlank(arguments.query) THEN done(QueryIsEmpty)
                   ELSE [pc |-> "checked", tool |-> tool, arguments |-> arguments,
                         key |-> arguments.query]
              ELSE IF IsBlank(arguments.article_number) THEN done(ArticleNumberIsEmpty)
                   ELSE LET normalized ==
                                _normalize_article_number(arguments.article_number,
                                                          tool.allow_fractional)
                        IN  IF normalized = <<>> THEN done(MustContainDigits)
                            ELSE [pc |-> "checked", tool |-> tool,
                                  arguments |-> arguments, key |-> normalized]]
    /\ UNCHANGED <<harnesses, ALL_TOOLS, session, store, COLLECTION_NAME, built,
                   call, calls, outcome, split, _checkpointer, _agent_ref, made, chat>>

\* The call reads the store into its own local: a search constructs its handle
\* and takes the documents, a lookup scrolls and takes the points.
TaskFetch(t) ==
    /\ tasks[t].pc = "checked"
    /\ LET tool == tasks[t].tool
           key == tasks[t].key
           should == IF "." \notin Range(key) THEN ShouldOfKey(key) ELSE <<StrVal(key)>>
           hits == IF tool.mode = "search"
                   THEN similarity_search(store, tool.collection_name, key,
                                          RequestedK(TopKOf(tasks[t].arguments.top_k)))
                   ELSE Scroll(store, tool.collection_name, should, ScrollLimit)
       IN  /\ tasks' = [tasks EXCEPT ![t] = [pc |-> "fetched", tool |-> tool,
                                             arguments |-> tasks[t].arguments,
                                             key |-> key, hits |-> hits]]
           /\ built' = IF tool.mode = "search"
                       THEN [built EXCEPT ![tool.collection_name] = @ + 1]
                       ELSE built
    /\ UNCHANGED <<harnesses, ALL_TOOLS, session, store, COLLECTION_NAME,
                   call, calls, outcome, split, _checkpointer, _agent_ref, made, chat>>

\* Documents and points kept in one list shared by the calls in flight.
SharedHits(t) ==
    LET of(u) == IF tasks[u].pc = "fetched" THEN tasks[u].hits ELSE <<>>
    IN  of("1") \o of("2")

\* docs and points are locals of the call.
OwnHits(t) == tasks[t].hits

\* The call renders what it fetched.
TaskRender(t) ==
    /\ tasks[t].pc = "fetched"
    /\ LET tool == tasks[t].tool
           hits == OwnHits(t)
           result == IF tool.mode = "search" THEN Return(_format_docs(hits))
                     ELSE IF hits = <<>> THEN Return(NoArticleFound)
                     ELSE Caught(LookupFailed, FormatPoints(hits, tasks[t].key))
       IN  tasks' = [tasks EXCEPT ![t] = [pc |-> "done", tool |-> tool,
                                          arguments |-> tasks[t].arguments,
                                          result |-> result]]
    /\ UNCHANGED <<harnesses, ALL_TOOLS, session, store, COLLECTION_NAME, built,
                   call, calls, outcome, split, _checkpointer, _agent_ref, made, chat>>

\* The string returns to the agent of chat t; the checkpointer keeps the tool
\* call in the memory of thread t.
TaskReturn(t) ==
    /\ tasks[t].pc = "done"
    /\ tasks' = [tasks EXCEPT ![t] = [pc |-> "idle"]]
    /\ threads' = [threads EXCEPT ![t] =
                      Append(@, [name |-> tasks[t].tool.name,
                                 arguments |-> tasks[t].arguments])]
    /\ UNCHANGED <<harnesses, ALL_TOOLS, answers, store, COLLECTION_NAME, built,
                   call, calls, outcome, split, _checkpointer, _agent_ref, made, chat>>

InitConcurrent ==
    /\ norm = NormIdle
    /\ fmt = FmtIdle
    /\ ALL_TOOLS = RegistryAtImport
    /\ threads = NoThreads
    /\ answers = {}
    /\ InitFront
    /\ store \in {StoreOf(<<"str", "frac", "159">>), StoreOf(<<"int", "str">>)}
    /\ COLLECTION_NAME = "uk_1996"
    /\ built = BuiltAtImport
    /\ call = NoCall
    /\ calls = <<>>
    /\ outcome = NoOutcome

NextConcurrent ==
    \E t \in ThreadIds :
        TaskCall(t) \/ TaskCheck(t) \/ TaskFetch(t) \/ TaskRender(t) \/ TaskReturn(t)

SpecConcurrent == InitConcurrent /\ [][NextConcurrent]_vars

----------------------------------------------------------------------------
(* telegram_bot._split_for_telegram, its loop followed one iteration at a time *)

_MAX_TG_MESSAGE_LEN == 4000

\* str.rfind(sub): the highest 0-based index at which sub starts, or -1.
rfind(chunk, sub) ==
    LET found == {i \in 0..(Len(chunk) - Len(sub)) : SubSeq(chunk, i + 1, i + Len(sub)) = sub}
    IN  IF found = {} THEN 0 - 1 ELSE CHOOSE i \in found : \A j \in found : j <= i

\* text[start:end]
Slice(text, start, end) == SubSeq(text, start + 1, end)

min(a, b) == IF a <= b THEN a ELSE b
max(a, b) == IF a >= b THEN a ELSE b

\* The chunk is cut at any line break it holds.
BreakIsThere(start, last_break, max_len) == last_break # 0 - 1

\* The chunk is cut at a line break at the half of max_len or later.
BreakAtHalfOrLater(start, last_break, max_len) ==
    last_break # 0 - 1 /\ (start + last_break) >= start + max_len \div 2

\* last_break != -1 and (start + last_break) > start + max_len // 2
BreakIsUsable(start, last_break, max_len) ==
    last_break # 0 - 1 /\ (start + last_break) > start + max_len \div 2

\* The next chunk starts after the line break the last one was cut at.
StartAfterBreak(end, cut) == IF cut THEN end + 1 ELSE end

\* start = end
NextStart(end, cut) == end

SplitTextAlphabet == {"a", "b", "\n"}

RECURSIVE TextsUpTo(_)
TextsUpTo(n) ==
    IF n = 0 THEN {<<>>}
    ELSE LET shorter == TextsUpTo(n - 1)
         IN  shorter \cup {Append(s, ch) : s \in {t \in shorter : Len(t) = n - 1},
                                           ch \in SplitTextAlphabet}

SplitPick ==
    /\ split.pc = "idle"
    /\ \E text \in TextsUpTo(MaxText), max_len \in 1..MaxSplitLen :
          split' = [pc |-> "picked", text |-> text, max_len |-> max_len,
                    start |-> 0, parts |-> <<>>]
    /\ UNCHANGED <<harnesses, ALL_TOOLS, session, store, COLLECTION_NAME, built,
                   call, calls, outcome, tasks, _checkpointer, _agent_ref, made, chat>>

\* if len(text) <= max_len: return [text]; otherwise parts = [], start = 0
SplitEnter ==
    /\ split.pc = "picked"
    /\ split' = IF Len(split.text) <= split.max_len
                THEN [split EXCEPT !.pc = "done", !.parts = <<split.text>>]
                ELSE [split EXCEPT !.pc = "loop", !.parts = <<>>, !.start = 0]
    /\ UNCHANGED <<harnesses, ALL_TOOLS, session, store, COLLECTION_NAME, built,
                   call, calls, outcome, tasks, _checkpointer, _agent_ref, made, chat>>

\* One iteration of "while start < len(text)".
SplitIterate ==
    /\ split.pc = "loop"
    /\ split.start < Len(split.text)
    /\ LET text == split.text
           start == split.start
           max_len == split.max_len
           whole_end == min(Len(text), start + max_len)
           whole == Slice(text, start, whole_end)
           last_break == max(rfind(whole, <<"\n", "\n">>), rfind(whole, <<"\n">>))
           cut == BreakIsUsable(start, last_break, max_len)
           end == IF cut THEN start + last_break ELSE whole_end
           chunk == Slice(text, start, end)
       IN  split' = [split EXCEPT !.parts = Append(@, chunk),
                                  !.start = NextStart(end, cut)]
    /\ UNCHANGED <<harnesses, ALL_TOOLS, session, store, COLLECTION_NAME, built,
                   call, calls, outcome, tasks, _checkpointer, _agent_ref, made, chat>>

\* The loop's test fails: return parts.
SplitReturn ==
    /\ split.pc = "loop"
    /\ ~(split.start < Len(split.text))
    /\ split' = [split EXCEPT !.pc = "done"]
    /\ UNCHANGED <<harnesses, ALL_TOOLS, session, store, COLLECTION_NAME, built,
                   call, calls, outcome, tasks, _checkpointer, _agent_ref, made, chat>>

SplitReset ==
    /\ split.pc = "done"
    /\ split' = SplitIdle
    /\ UNCHANGED <<harnesses, ALL_TOOLS, session, store, COLLECTION_NAME, built,
                   call, calls, outcome, tasks, _checkpointer, _agent_ref, made, chat>>

InitSplit == InitNorm

NextSplit == SplitPick \/ SplitEnter \/ SplitIterate \/ SplitReturn \/ SplitReset

SpecSplit == InitSplit /\ [][NextSplit]_vars

\* The function runs on: a step it can take is taken.
SpecSplitFair == SpecSplit /\ WF_vars(SplitEnter \/ SplitIterate \/ SplitReturn)

----------------------------------------------------------------------------
(* C1: normalising an already normalised key, with the same flag, gives the
   same key. *)
C1_Idempotent == norm.pc = "twice" => norm.rekey = norm.key

\* A raw string that normalisation really changes has been normalised twice.
C1_Witness == norm.pc = "twice" /\ norm.key # norm.raw /\ norm.key # <<>>

(* C2: "st. 12.9" (Cyrillic) normalises to "12.9" for a fractional-capable
   corpus and to "129" for a non-fractional one. *)
C2_St129 ==
    (norm.pc \in {"once", "twice"} /\ norm.raw = CiteSt129)
        => norm.key = (IF norm.allow_fractional THEN Chars("12.9") ELSE Chars("129"))

----------------------------------------------------------------------------
(* Vocabulary of the claims about exact lookup *)

HasDigit(s) == \E i \in 1..Len(s) : isdigit(s[i])
HasDot(s) == \E i \in 1..Len(s) : s[i] = "."
Contains(text, sub) ==
    \E i \in 0..(Len(text) - Len(sub)) : SubSeq(text, i + 1, i + Len(sub)) = sub
StartsWith(text, prefix) ==
    Len(text) >= Len(prefix) /\ SubSeq(text, 1, Len(prefix)) = prefix

ExactAnswered == call.tool = "exact"

\* The canonical key of the citation of the invocation being answered.
KeyOfCall == _normalize_article_number(call.article_number, call.allow_fractional)

NumberOf(payload) == get(get(payload, "metadata"), "article_number")
BodyOf(payload) == Or(Or(get(payload, "page_content"), get(payload, "text")), StrVal(<<>>)).s

\* article_number equals the key as a string, or the integer value of the key.
NumberEqualsKey(payload, key) ==
    \/ NumberOf(payload) = StrVal(key)
    \/ IntParses(key) /\ NumberOf(payload) = IntVal(IntOf(key))

\* A number: decimal digits, or decimal digits on both sides of one ".".
WellFormedNumber(key) ==
    \/ IntParses(key)
    \/ \E i \in 2..(Len(key) - 1) :
          /\ key[i] = "."
          /\ IntParses(SubSeq(key, 1, i - 1))
          /\ IntParses(SubSeq(key, i + 1, Len(key)))

IntegerAlternativeInFilter == \E i \in 1..Len(calls[1].should) : calls[1].should[i].t = "int"

(* C3: an exact lookup whose non-blank citation holds no digit ends in the
   'must contain digits' string and makes no call to the store, whether or not
   the corpus allows fractional numbers. *)
C3_NoDigitIsInvalidReference ==
    (ExactAnswered /\ ~IsBlank(call.article_number) /\ ~HasDigit(call.article_number))
        => (outcome = Return(MustContainDigits) /\ calls = <<>>)

(* C4 as stated: an exact lookup with an empty or whitespace-only citation
   reports the InvalidReference ('must contain digits') outcome. *)
C4_BlankIsInvalidReference ==
    (ExactAnswered /\ IsBlank(call.article_number)) => outcome = Return(MustContainDigits)

(* C4 as amended: an exact lookup with an empty or whitespace-only citation
   reports the EmptyInput string 'Article number is empty.' and makes no call to
   the store; the citation's canonical key is empty. *)
C4_BlankIsEmptyInput ==
    (ExactAnswered /\ IsBlank(call.article_number))
        => /\ outcome = Return(ArticleNumberIsEmpty)
           /\ calls = <<>>
           /\ KeyOfCall = <<>>

C4_Witness ==
    /\ ExactAnswered /\ call.article_number = CiteSpaces
    /\ outcome = Return(ArticleNumberIsEmpty)

(* C5 as stated: every stored article whose article_number equals the key as a
   string or equals the integer value of the key is returned, and the integer
   alternative is in the filter exactly when the key holds no ".". *)
C5_EveryMatchReturned ==
    (ExactAnswered /\ call.fault = "none" /\ Len(calls) = 1)
        => /\ \A p \in Range(store[calls[1].collection]) :
                  NumberEqualsKey(p, KeyOfCall) => p \in Range(calls[1].returned)
           /\ IntegerAlternativeInFilter <=> ~HasDot(KeyOfCall)

(* C5 as amended: the lookup returns the stored articles whose article_number
   equals the key as a string or equals the integer value of the key, the first
   10 of them in stored order, each body in the returned string; the integer
   alternative is in the filter exactly when the key holds no "." and int()
   accepts it. *)
C5_MatchesStringOrInteger ==
    (ExactAnswered /\ call.fault = "none" /\ Len(calls) = 1)
        => /\ calls[1].returned =
                  FirstN(SelectSeq(store[calls[1].collection],
                                   LAMBDA p : NumberEqualsKey(p, KeyOfCall)), ScrollLimit)
           /\ \A p \in Range(calls[1].returned) :
                  outcome.kind = "return" /\ Contains(outcome.value, BodyOf(p))
           /\ IntegerAlternativeInFilter <=> (~HasDot(KeyOfCall) /\ IntParses(KeyOfCall))

\* A lookup for "10" got both the record stored as "10" and the one stored as 10.
C5_Witness ==
    /\ ExactAnswered /\ call.fault = "none" /\ KeyOfCall = Chars("10")
    /\ Len(calls) = 1
    /\ \E p, q \in Range(calls[1].returned) :
          NumberOf(p) = StrVal(Chars("10")) /\ NumberOf(q) = IntVal(10)

(* C10: an exact lookup for a well-formed number that no stored article has,
   answered by the store, returns the fixed non-empty sentinel: no exception and
   no 'Lookup failed' string. *)
C10_NoMatchIsSentinel ==
    (/\ ExactAnswered /\ call.fault = "none"
     /\ WellFormedNumber(KeyOfCall)
     /\ \A p \in Range(store[call.corpus]) : ~NumberEqualsKey(p, KeyOfCall))
        => /\ outcome = Return(NoArticleFound)
           /\ outcome.value # <<>>
           /\ ~StartsWith(outcome.value, LookupFailed)

C10_Witness ==
    /\ ExactAnswered /\ call.fault = "none" /\ KeyOfCall = Chars("159")
    /\ store[call.corpus] # <<>>
    /\ outcome = Return(NoArticleFound)

----------------------------------------------------------------------------
(* Vocabulary of the claims about semantic search *)

SearchAnswered == call.tool = "search"
Invoked == call # NoCall
QueryCalls == {i \in 1..Len(calls) : calls[i].op = "query"}

(* C6: whatever the argument and whatever fault the store or the embedding
   service has, an invocation of a capability gives its caller a string: no
   exception leaves the capability. *)
C6_AlwaysAString == Invoked => outcome.kind = "return"

\* A faulting backend was answered with a failure string.
C6_Witness ==
    /\ Invoked /\ call.fault # "none"
    /\ outcome.kind = "return"
    /\ StartsWith(outcome.value, SearchFailed) \/ StartsWith(outcome.value, LookupFailed)

(* C7: over any sequence of semantic searches the vector-store handle of a
   corpus key is constructed at most once. *)
C7_HandleBuiltOnce == \A c \in Collections : built[c] <= 1

(* C8: a semantic search with an empty or whitespace-only query returns the
   'Query is empty.' string and makes no backend call: no handle constructed,
   nothing embedded, the store not queried. *)
C8_BlankQueryFailsFast ==
    (SearchAnswered /\ IsBlank(call.query))
        => (outcome = Return(QueryIsEmpty) /\ calls = <<>>)

C8_Witness ==
    /\ SearchAnswered /\ call.query = <<" ", "\n">> /\ call.fault = "construct"
    /\ outcome = Return(QueryIsEmpty)

(* C9: the store is asked for max(1, top_k) hits, 5 when top_k is left out:
   never for zero or a negative number of hits. *)
C9_RequestsAtLeastOne ==
    SearchAnswered =>
        \A i \in QueryCalls :
            /\ calls[i].k >= 1
            /\ call.top_k = <<>> => calls[i].k = 5
            /\ (call.top_k # <<>> /\ call.top_k[1] <= 0) => calls[i].k = 1
            /\ (call.top_k # <<>> /\ call.top_k[1] >= 1) => calls[i].k = call.top_k[1]

\* A search with a negative top_k reached the store and was given one hit.
C9_Witness ==
    /\ SearchAnswered /\ call.top_k = <<0 - 1>> /\ call.fault = "none"
    /\ QueryCalls # {}
    /\ store[call.corpus] # <<>>
    /\ outcome.kind = "return" /\ ~Contains(outcome.value, Chars("[2]"))

----------------------------------------------------------------------------
(* C11: an exact lookup ends in the 'Lookup failed: ...' string only when its
   call to the store faulted: not on zero matches, not on any citation that
   holds a digit, not on any shape of the returned payload. *)
C11_FailureOnlyOnStoreFault ==
    (ExactAnswered /\ outcome.kind = "return" /\ StartsWith(outcome.value, LookupFailed))
        => call.fault = "store"

----------------------------------------------------------------------------
(* Zero results: the store answered and gave nothing *)

ExactNoMatch ==
    /\ ExactAnswered /\ call.fault = "none"
    /\ Len(calls) = 1 /\ calls[1].returned = <<>>

SearchNoHits ==
    /\ SearchAnswered /\ call.fault = "none"
    /\ \E i \in QueryCalls : store[calls[i].collection] = <<>>

(* C12 as stated: a zero-result outcome is rendered by the formatter's sentinel
   in both modes: an exact lookup with no match and a semantic search with no
   hits return the same fixed string, the one the formatter gives for an empty
   result. *)
C12_SameSentinelInBothModes ==
    (ExactNoMatch \/ SearchNoHits) => outcome = Return(NoRelevantDocuments)

(* C12 as amended: each mode has its own fixed non-empty sentinel: a semantic
   search with no hits returns the formatter's 'No relevant documents found.',
   an exact lookup with no match returns 'No article found with the specified
   number.' without calling the formatter, and the two strings differ. *)
C12_SentinelOfEachMode ==
    /\ SearchNoHits => (outcome = Return(NoRelevantDocuments) /\ outcome.value # <<>>)
    /\ ExactNoMatch => (outcome = Return(NoArticleFound) /\ outcome.value # <<>>)
    /\ ExactNoMatch => outcome.value # NoRelevantDocuments

\* A semantic search of an empty collection was answered with the formatter's sentinel.
C12_Witness ==
    /\ SearchNoHits /\ ~IsBlank(call.query)
    /\ outcome = Return(NoRelevantDocuments)

----------------------------------------------------------------------------
(* Vocabulary of the claims about rendering *)

Rendered == fmt.pc = "rendered"
RenderedText == fmt.result.value

(* C13: formatting an empty result set returns the fixed 'No relevant documents
   found.' sentinel, and for every input, empty or not and with any fields
   missing, the formatter returns a non-empty string. *)
C13_NeverEmptyText ==
    (Rendered /\ fmt.mode = "docs")
        => /\ fmt.result.kind = "return"
           /\ RenderedText # <<>>
           /\ fmt.records = <<>> => RenderedText = NoRelevantDocuments

\* The formatter was given no documents and returned the sentinel.
C13_Witness ==
    /\ Rendered /\ fmt.mode = "docs" /\ fmt.records = <<>>
    /\ RenderedText = NoRelevantDocuments

\* Where sub occurs in text.
Occurrences(text, sub) ==
    {i \in 1..(Len(text) - Len(sub) + 1) : SubSeq(text, i, i + Len(sub) - 1) = sub}

EndsWith(text, suffix) ==
    Len(text) >= Len(suffix) /\ SubSeq(text, Len(text) - Len(suffix) + 1, Len(text)) = suffix

\* The line that opens block i.
Label(i) == Chars("[") \o StrOfInt(i) \o Chars("]\n")

\* The content of the i-th record given: the page_content of a document, the
\* page_content or text of a point.
ContentGiven(i) ==
    IF fmt.mode = "docs" THEN Document(fmt.records[i]).page_content.s
    ELSE BodyOf(fmt.records[i])

\* The part of the rendered text from the label of block i up to the blank line
\* before the label of block i + 1, or to the end for the last block.
BlockText(i) ==
    LET from == CHOOSE p \in Occurrences(RenderedText, Label(i)) : TRUE
        upto == IF i = Len(fmt.records) THEN Len(RenderedText)
                ELSE (CHOOSE p \in Occurrences(RenderedText, Label(i + 1)) : TRUE) - 3
    IN  SubSeq(RenderedText, from, upto)

(* C14: formatting preserves the order of its input and numbers the blocks from
   1: for n records the text holds the labels [1] .. [n] once each and in that
   order, starting the text, and the block labelled [i] ends with the content of
   the i-th record, for the documents of a search and for the points of an exact
   lookup alike. *)
C14_OrderAndNumbering ==
    (Rendered /\ fmt.records # <<>>)
        => /\ fmt.result.kind = "return"
           /\ \A i \in 1..Len(fmt.records) :
                  Cardinality(Occurrences(RenderedText, Label(i))) = 1
           /\ Occurrences(RenderedText, Label(1)) = {1}
           /\ Occurrences(RenderedText, Label(0)) = {}
           /\ Occurrences(RenderedText, Label(Len(fmt.records) + 1)) = {}
           /\ \A i, j \in 1..Len(fmt.records) :
                  i < j => \A p \in Occurrences(RenderedText, Label(i)),
                              q \in Occurrences(RenderedText, Label(j)) : p < q
           /\ \A i \in 1..Len(fmt.records) :
                  EndsWith(BlockText(i), SoderzhanieLabel \o ContentGiven(i))

\* Two points with different bodies were rendered, the first one first.
C14_Witness ==
    /\ Rendered /\ fmt.mode = "points" /\ Len(fmt.records) = 2
    /\ BodyOf(fmt.records[1]) # BodyOf(fmt.records[2])
    /\ BodyOf(fmt.records[1]) # <<>> /\ BodyOf(fmt.records[2]) # <<>>
    /\ fmt.result.kind = "return"
    /\ \E p \in Occurrences(RenderedText, BodyOf(fmt.records[1])),
          q \in Occurrences(RenderedText, BodyOf(fmt.records[2])) : p < q

\* The record has no chapter metadata, no article metadata.
NoChapterMetadata(payload) ==
    LET meta == Or(get(payload, "metadata"), EmptyDict)
    IN  get(meta, "chapter_title") = None /\ get(meta, "chapter_number") = None

NoArticleMetadata(payload) ==
    LET meta == Or(get(payload, "metadata"), EmptyDict)
    IN  get(meta, "article_title") = None /\ get(meta, "article_number") = None

(* C15: a record without chapter metadata is rendered without a chapter line
   and a record without article metadata without an article line: no
   placeholder line stands in for the missing metadata. *)
C15_MissingMetadataOmitsLine ==
    (Rendered /\ Len(fmt.records) = 1 /\ fmt.result.kind = "return")
        => /\ NoChapterMetadata(fmt.records[1]) => ~Contains(RenderedText, GlavaLabel)
           /\ NoArticleMetadata(fmt.records[1]) => ~Contains(RenderedText, StatyaLabel)

----------------------------------------------------------------------------
(* C16: end to end, an exact lookup of a corpus without fractional numbers given
   the citation "statya 159" (Cyrillic) queries the store with the canonical key
   "159", and when the corpus holds a record whose article_number is 159 the
   returned string contains that record's content verbatim. *)
C16_Statya159EndToEnd ==
    (/\ ExactAnswered /\ call.article_number = CiteStatya159
     /\ ~call.allow_fractional /\ call.fault = "none")
        => /\ Len(calls) = 1
           /\ calls[1].should[1] = StrVal(Chars("159"))
           /\ \A p \in Range(store[call.corpus]) :
                  NumberOf(p) = IntVal(159)
                      => outcome.kind = "return" /\ Contains(outcome.value, BodyOf(p))

----------------------------------------------------------------------------
\* a is b with some characters left out: the characters of a appear in b in the
\* same relative order.
RECURSIVE IsSubsequence(_, _)
IsSubsequence(a, b) ==
    IF a = <<>> THEN TRUE
    ELSE IF b = <<>> THEN FALSE
    ELSE IF Head(a) = Head(b) THEN IsSubsequence(Tail(a), Tail(b))
    ELSE IsSubsequence(a, Tail(b))

Normalised == norm.pc \in {"once", "twice"}

(* C17: the canonical key holds only digit characters (characters str.isdigit()
   accepts) when the corpus does not permit fractional numbers, and only digit
   characters and "." when it does; the characters kept are those of the raw
   string in their original relative order, none of them dropped. *)
C17_OnlyDigitsAndDot ==
    Normalised
        => /\ \A i \in 1..Len(norm.key) :
                  isdigit(norm.key[i]) \/ (norm.allow_fractional /\ norm.key[i] = ".")
           /\ IsSubsequence(norm.key, norm.raw)
           /\ Len(norm.key) =
                  Cardinality({i \in 1..Len(norm.raw) :
                                  \/ isdigit(norm.raw[i])
                                  \/ norm.allow_fractional /\ norm.raw[i] = "."})

\* "st. 12.9" was normalised for a corpus without fractional numbers: the dots
\* and the letters are gone, the digits are in order.
C17_Witness ==
    /\ Normalised /\ norm.raw = CiteSt129 /\ ~norm.allow_fractional
    /\ norm.key = Chars("129")

----------------------------------------------------------------------------
\* The labels [i] found in the string an invocation returned.
LabelsIn(text) == {i \in 0..(ScrollLimit + 2) : Contains(text, Label(i))}

(* C18: an exact lookup reaches the store by a metadata-only fetch bounded to 10
   records: its only backend call is one scroll with limit 10, no embedding and
   no similarity query, it gets at most 10 points, and the string it returns
   holds at most 10 numbered blocks however many stored records share the
   article number. *)
C18_AtMostTenRecords ==
    ExactAnswered
        => /\ Len(calls) <= 1
           /\ \A i \in 1..Len(calls) :
                  /\ calls[i].op = "scroll"
                  /\ calls[i].limit = 10
                  /\ Len(calls[i].returned) <= 10
           /\ outcome.kind = "return" =>
                  /\ Cardinality(LabelsIn(outcome.value)) <= 10
                  /\ LabelsIn(outcome.value) \subseteq 1..10

\* Eleven stored records share the number asked for; ten blocks came back.
C18_Witness ==
    /\ ExactAnswered /\ call.fault = "none" /\ Len(calls) = 1
    /\ Len(SelectSeq(store[calls[1].collection],
                     LAMBDA p : NumberEqualsKey(p, KeyOfCall))) = 11
    /\ Len(calls[1].returned) = 10
    /\ outcome.kind = "return" /\ LabelsIn(outcome.value) = 1..10

----------------------------------------------------------------------------
(* C19: the factory names the two capabilities of a corpus from its key K alone,
   search_K and get_K_by_article: building again from the same key gives the
   same two names, and capabilities of distinct keys, or of distinct modes,
   never share a name. *)
C19_NamesFromKey ==
    /\ \A i \in 1..Len(ALL_TOOLS) :
          /\ ALL_TOOLS[i].code_key = Chars("APK-RF") /\ ALL_TOOLS[i].mode = "search"
                => ALL_TOOLS[i].name = Chars("search_APK-RF")
          /\ ALL_TOOLS[i].code_key = Chars("koap_2001") /\ ALL_TOOLS[i].mode = "exact"
                => ALL_TOOLS[i].name = Chars("get_koap_2001_by_article")
          /\ ALL_TOOLS[i].mode = "search"
                => /\ StartsWith(ALL_TOOLS[i].name, Chars("search_"))
                   /\ EndsWith(ALL_TOOLS[i].name, ALL_TOOLS[i].code_key)
          /\ ALL_TOOLS[i].mode = "exact"
                => /\ StartsWith(ALL_TOOLS[i].name, Chars("get_") \o ALL_TOOLS[i].code_key)
                   /\ EndsWith(ALL_TOOLS[i].name, Chars("_by_article"))
    /\ \A i, j \in 1..Len(ALL_TOOLS) :
          (ALL_TOOLS[i].name = ALL_TOOLS[j].name)
              <=> (/\ ALL_TOOLS[i].code_key = ALL_TOOLS[j].code_key
                   /\ ALL_TOOLS[i].mode = ALL_TOOLS[j].mode)

\* The same code was built twice and another code once.
C19_Witness ==
    \E i, j, k \in 1..Len(ALL_TOOLS) :
        /\ i < j /\ ALL_TOOLS[i].mode = "exact" /\ ALL_TOOLS[j].mode = "exact"
        /\ ALL_TOOLS[i].code_key = ALL_TOOLS[j].code_key
        /\ ALL_TOOLS[i].name = ALL_TOOLS[j].name
        /\ ALL_TOOLS[k].code_key # ALL_TOOLS[i].code_key
        /\ ALL_TOOLS[k].mode = "exact"
        /\ ALL_TOOLS[k].name # ALL_TOOLS[i].name

----------------------------------------------------------------------------
(* C20: retrieval is deterministic in (corpus key, mode, parameter, top_k):
   against the same store contents, with the store answering, two invocations of
   the same capability with the same arguments return the same string, whatever
   thread the agent runs for and whatever invocations were made before. *)
C20_SameArgumentsSameString ==
    \A a, b \in answers :
        a.tool_call = b.tool_call
            => (a.result = b.result /\ a.result.kind = "return")

\* The same search was made for two threads, the second after another
\* invocation, and both times a document came back.
C20_Witness ==
    \E a, b \in answers :
        /\ a.tool_call = b.tool_call
        /\ a.thread_id # b.thread_id
        /\ a.earlier # b.earlier
        /\ a.result = b.result
        /\ a.result.kind = "return" /\ Contains(a.result.value, Label(1))

----------------------------------------------------------------------------
\* What the call of chat t returns when it runs alone against the store.
AloneResult(t) == InvokeTool(tasks[t].tool, tasks[t].arguments, "none").outcome

(* C21: retrieval calls in flight together for different chat sessions do not
   interfere: whatever the interleaving of their steps, each call ends with the
   string it returns when run alone, and what a call holds between its steps
   is what the store gave for its own arguments, untouched by the other call. *)
C21_NoInterference ==
    \A t \in ThreadIds :
        /\ tasks[t].pc = "done" => tasks[t].result = AloneResult(t)
        /\ tasks[t].pc = "fetched" =>
              LET tool == tasks[t].tool
                  alone == IF tool.mode = "search"
                           THEN search_tool(store, tool.collection_name,
                                            tasks[t].arguments.query,
                                            TopKOf(tasks[t].arguments.top_k), "none")
                           ELSE exact_tool(store, tool.collection_name,
                                           tool.allow_fractional,
                                           tasks[t].arguments.article_number, "none")
              IN  IF tool.mode = "exact"
                  THEN tasks[t].hits = alone.calls[1].returned
                  ELSE alone.outcome = Return(_format_docs(tasks[t].hits))

\* Both calls were in flight, one had fetched articles when the other ended with
\* a rendered block.
C21_Witness ==
    /\ tasks["1"].pc = "done" /\ tasks["2"].pc = "fetched"
    /\ tasks["2"].hits # <<>>
    /\ tasks["1"].tool # tasks["2"].tool
    /\ Contains(tasks["1"].result.value, Chars("[1]"))

----------------------------------------------------------------------------
ReadOperations == {"scroll", "query", "embed", "construct"}

(* C22: over any sequence of exact lookups and semantic searches the article
   records of the store stay as they were: no step of the retrieval layer
   changes the store, and every backend call it issues is a read. *)
C22_StoreIsOnlyRead ==
    /\ [](\A i \in 1..Len(calls) : calls[i].op \in ReadOperations)
    /\ [][store' = store]_vars

\* A search constructed a handle and got articles of a collection that holds some.
C22_Witness ==
    /\ SearchAnswered /\ call.fault = "none"
    /\ Constructed(calls, call.corpus) = 1
    /\ store[call.corpus] # <<>>
    /\ outcome.kind = "return" /\ Contains(outcome.value, Label(1))

----------------------------------------------------------------------------
(* C23: a capability named for corpus key K reads only the collection of corpus
   K: every handle it constructs, every similarity query and every scroll it
   issues targets the collection named K, whatever QDRANT_COLLECTION is. *)
C23_ReadsOwnCollection ==
    Invoked =>
        \A i \in 1..Len(calls) :
            calls[i].op \in {"construct", "query", "scroll"}
                => calls[i].collection = call.corpus

----------------------------------------------------------------------------
\* "".join(parts)
RECURSIVE Concat(_)
Concat(parts) == IF parts = <<>> THEN <<>> ELSE Head(parts) \o Concat(Tail(parts))

SplitDone == split.pc = "done"

(* C24: splitting is lossless and order-preserving: for every text and every
   max_len >= 1 the parts _split_for_telegram returns, concatenated in order,
   are the original text; while the loop runs, the parts so far are the text up
   to start. *)
C24_SplitIsLossless ==
    /\ SplitDone => Concat(split.parts) = split.text
    /\ split.pc = "loop" => Concat(split.parts) = SubSeq(split.text, 1, split.start)

\* A text was cut at a line break: the next part begins with the break.
C24_Witness ==
    /\ SplitDone /\ Len(split.parts) >= 2
    /\ Len(split.parts[1]) < split.max_len
    /\ Head(split.parts[2]) = "\n"
    /\ Concat(split.parts) = split.text

----------------------------------------------------------------------------
\* Part i is followed by another part, now or once the loop has run on.
NotTheLastPart(i) ==
    \/ i < Len(split.parts)
    \/ split.pc = "loop" /\ split.start < Len(split.text)

(* C25: for a text longer than max_len (max_len >= 1) every part
   _split_for_telegram produces is non-empty and at most max_len characters
   long, and every part but the last is longer than max_len // 2. *)
C25_PartsAreBounded ==
    (split.pc \in {"loop", "done"} /\ Len(split.text) > split.max_len)
        => \A i \in 1..Len(split.parts) :
               /\ split.parts[i] # <<>>
               /\ Len(split.parts[i]) <= split.max_len
               /\ NotTheLastPart(i) => Len(split.parts[i]) > split.max_len \div 2

\* A text was split into three parts or more, one of them cut short at a break.
C25_Witness ==
    /\ SplitDone /\ Len(split.text) > split.max_len
    /\ Len(split.parts) >= 3
    /\ \E i \in 1..(Len(split.parts) - 1) : Len(split.parts[i]) < split.max_len

----------------------------------------------------------------------------
\* The step is one iteration of the loop.
SplitIterated == split.pc = "loop" /\ split'.pc = "loop" /\ split'.parts # split.parts

(* C26: the loop of _split_for_telegram terminates for every text when
   max_len >= 1: every iteration moves start strictly forward and never past the
   end of the text, also when the chunk is cut back to a line break, so a
   function that has entered the loop returns. *)
C26_LoopTerminates ==
    /\ [][SplitIterated => (split'.start > split.start /\ split'.start <= Len(split.text))]_vars
    /\ (split.pc = "loop") ~> (split.pc = "done")

\* The loop has run three iterations, one of them cut back to a line break, and
\* the function has returned.
C26_Witness ==
    /\ SplitDone /\ Len(split.parts) = 3
    /\ Len(split.parts[2]) < split.max_len
    /\ Head(split.parts[3]) = "\n"

----------------------------------------------------------------------------
(* The agent of the process: get_agent, agent.invoke and answer_question *)

MaxMessages == 3

\* InMemorySaver() and create_react_agent(...): the n-th object of its kind.
InMemorySaver(n) == [t |-> "saver", id |-> n]
create_react_agent(n, checkpointer) == [t |-> "agent", id |-> n, checkpointer |-> checkpointer]

\* init_chat_model raises (no API key), agent.invoke raises (the model call fails).
AgentFaults == {"none", "model", "invoke"}
ModelFault == Chars("Did not find openai_api_key")
InvokeFault == Chars("Connection error.")
ThreadIdRequired == Chars("Checkpointer requires thread_id")

\* A checkpointer is made on every call.
SaverAlwaysMissing(cp) == TRUE

\* _checkpointer is None
SaverIsMissing(cp) == cp = NoneRef

\* get_agent(): the module's state after the call and what the call returns or raises.
get_agent(cp, ref, made_, fault) ==
    LET need_saver == SaverIsMissing(cp)
        cp1 == IF need_saver THEN InMemorySaver(made_.savers + 1) ELSE cp
        made0 == [made_ EXCEPT !.calls = @ + 1]
        made1 == IF need_saver THEN [made0 EXCEPT !.savers = @ + 1] ELSE made0
        need_agent == "agent" \notin DOMAIN ref
    IN  IF need_agent /\ fault = "model"
        THEN [outcome |-> Raise(ModelFault), _checkpointer |-> cp1,
              _agent_ref |-> ref, made |-> made1]
        ELSE LET ref1 == IF need_agent
                         THEN [k \in {"agent"} |-> create_react_agent(made1.agents + 1, cp1)]
                         ELSE ref
                 made2 == IF need_agent THEN [made1 EXCEPT !.agents = @ + 1] ELSE made1
             IN  [outcome |-> Return(ref1["agent"]), _checkpointer |-> cp1,
                  _agent_ref |-> ref1,
                  made |-> [made2 EXCEPT !.returned = Append(@, ref1["agent"])]]

\* Messages of a conversation.
HumanMessage(content) == [cls |-> "HumanMessage", content |-> StrVal(content)]
AIMessage(content) == [cls |-> "AIMessage", content |-> StrVal(content)]
ToolMessage(content) == [cls |-> "ToolMessage", content |-> StrVal(content)]

ShortAnswer == Chars("No.")
ToolAnswer == Chars("See article 10.")
\* An answer longer than one Telegram message, with a line break in its second half.
LongAnswer ==
    [i \in 1..(_MAX_TG_MESSAGE_LEN + 2) |->
        IF i = 3 * (_MAX_TG_MESSAGE_LEN \div 4) THEN "\n" ELSE "a"]

\* What the model does with a question: answer, call a tool and answer, stay
\* silent, call a tool and stay silent, or answer at length.
Turns == {"direct", "tool", "silent", "tool_silent", "long"}

\* The tool call of a turn: get_uk_1996_by_article("10").
TurnToolReply(st, collection_name) ==
    get_uk_1996_by_article(st, collection_name, Chars("10"), "none")

\* The messages the agent's loop adds after the user's message; tool is the reply
\* of the tool the turn calls, if it calls one.
TurnMessages(turn, tool) ==
    CASE turn = "direct" -> <<AIMessage(ShortAnswer)>>
      [] turn = "tool" ->
            <<AIMessage(<<>>), ToolMessage(tool.outcome.value), AIMessage(ToolAnswer)>>
      [] turn = "silent" -> <<AIMessage(<<>>)>>
      [] turn = "tool_silent" ->
            <<AIMessage(<<>>), ToolMessage(tool.outcome.value), AIMessage(<<>>)>>
      [] turn = "long" -> <<AIMessage(LongAnswer)>>

TurnCalls(turn, tool) ==
    IF turn \in {"tool", "tool_silent"} THEN tool.calls ELSE <<>>

\* The agent's loop on a thread that ends with the user's message: the thread with
\* the turn's messages is saved and is the response.
RunTurn(thread, input, memory, turn, tool) ==
    [outcome |-> Return(input \o TurnMessages(turn, tool)),
     threads |-> [memory EXCEPT ![thread] = input \o TurnMessages(turn, tool)],
     calls |-> TurnCalls(turn, tool)]

\* The thread of the config is read from the checkpointer and the user's message
\* is added to it; the model call may fail.
InvokeOnThread(thread, input, memory, st, collection_name, turn, fault) ==
    IF fault = "invoke"
    THEN [outcome |-> Raise(InvokeFault),
          threads |-> [memory EXCEPT ![thread] = input], calls |-> <<>>]
    ELSE RunTurn(thread, input, memory, turn, TurnToolReply(st, collection_name))

\* {"configurable": {"thread_id": str(thread_id)}}
ConfigOf(thread_id) ==
    DictVal([k \in {"configurable"} |->
                DictVal([j \in {"thread_id"} |-> StrVal(Interpolate(thread_id))])])

\* agent.invoke({"messages": [user message]}, config)
agent_invoke(query, config, memory, st, collection_name, turn, fault) ==
    IF get(config, "configurable") = None
    THEN [outcome |-> Raise(ThreadIdRequired), threads |-> memory, calls |-> <<>>]
    ELSE InvokeOnThread(get(get(config, "configurable"), "thread_id").s,
                        memory[get(get(config, "configurable"), "thread_id").s]
                            \o <<HumanMessage(query)>>,
                        memory, st, collection_name, turn, fault)

UnableToAnswer ==
    Chars("I was unable to generate an answer. Please try rephrasing your request.")

\* Any message with content is an answer.
HasContent(msg) == Truthy(msg.content)

\* cls_name == "AIMessage" and getattr(msg, "content", None)
IsAnswer(msg) == msg.cls = "AIMessage" /\ Truthy(msg.content)

\* for msg in reversed(messages): return str(content) of the first answer; else the fallback.
RECURSIVE ScanReversed(_)
ScanReversed(messages) ==
    IF messages = <<>> THEN UnableToAnswer
    ELSE LET msg == messages[Len(messages)]
         IN  IF IsAnswer(msg) THEN Interpolate(msg.content)
             ELSE ScanReversed(SubSeq(messages, 1, Len(messages) - 1))

\* The rest of answer_question once agent.invoke has returned or raised.
AfterInvoke(got, query, config, ran) ==
    [outcome |-> IF ran.outcome.kind = "raise" THEN ran.outcome
                 ELSE Return(ScanReversed(ran.outcome.value)),
     got |-> got, threads |-> ran.threads,
     invocations |-> <<[agent |-> got.outcome.value, query |-> query, config |-> config]>>,
     response |-> IF ran.outcome.kind = "raise" THEN <<>> ELSE ran.outcome.value,
     calls |-> ran.calls]

\* The rest of answer_question once get_agent has returned or raised.
AfterGetAgent(got, query, config, memory, st, collection_name, turn, fault) ==
    IF got.outcome.kind = "raise"
    THEN [outcome |-> got.outcome, got |-> got, threads |-> memory,
          invocations |-> <<>>, response |-> <<>>, calls |-> <<>>]
    ELSE AfterInvoke(got, query, config,
                     agent_invoke(query, config, memory, st, collection_name, turn, fault))

\* answer_question(query, thread_id)
answer_question(query, thread_id, cp, ref, made_, memory, st, collection_name, turn, fault) ==
    AfterGetAgent(get_agent(cp, ref, made_, fault), query,
                  IF Truthy(thread_id) THEN ConfigOf(thread_id) ELSE EmptyDict,
                  memory, st, collection_name, turn, fault)

----------------------------------------------------------------------------
(* The Telegram handler *)

\* _split_for_telegram(text, max_len): the parts from position start on.
RECURSIVE SplitFrom(_, _, _)
SplitFrom(text, max_len, start) ==
    IF ~(start < Len(text)) THEN <<>>
    ELSE LET whole_end == min(Len(text), start + max_len)
             whole == Slice(text, start, whole_end)
             last_break == max(rfind(whole, <<"\n", "\n">>), rfind(whole, <<"\n">>))
             cut == BreakIsUsable(start, last_break, max_len)
             end == IF cut THEN start + last_break ELSE whole_end
         IN  <<Slice(text, start, end)>> \o SplitFrom(text, max_len, NextStart(end, cut))

_split_for_telegram(text, max_len) ==
    IF Len(text) <= max_len THEN <<text>> ELSE SplitFrom(text, max_len, 0)

CouldNotProcess == Chars("Sorry, I couldn't process that right now. Error: ")

\* The thread id is the chat id without its sign.
ThreadIdOfMagnitude(chat_id) == StrOfInt(IF chat_id < 0 THEN 0 - chat_id ELSE chat_id)

\* str(message.chat.id)
ThreadIdOf(chat_id) == StrOfInt(chat_id)

\* Private chats have positive ids, groups negative ones.
ChatIds == {5, 0 - 5}
BotThreadIds == {StrOfInt(c) : c \in ChatIds}
MessageTexts == {StrVal(<<" ">>), StrVal(<<"\n", "\t">>), StrVal(Chars(" q "))}
Messages == [chat_id : ChatIds, text : MessageTexts]

\* for chunk in _split_for_telegram(response_text): await message.answer(chunk)
SendChunks(response_text) == _split_for_telegram(response_text, _MAX_TG_MESSAGE_LEN)

\* No try around answer_question: what it raises leaves the handler.
AnswerUnguarded(result) == result

\* try: response_text = answer_question(...)
\* except Exception as exc: response_text = "Sorry, ... Error: {exc}"
AnswerOrApology(result) == Caught(CouldNotProcess, result)

\* not text.strip()
TextIsBlank(text) == IsBlank(text)

\* handle_user_message(message)
handle_user_message(message, turn, fault) ==
    /\ chat.handled < MaxMessages
    /\ LET text == Or(message.text, StrVal(<<>>)).s
       IN  IF TextIsBlank(text)
           THEN /\ chat' = [pc |-> "returned", handled |-> chat.handled + 1,
                            chat_id |-> message.chat_id, text |-> text, typing |-> FALSE,
                            invocations |-> <<>>, answered |-> NoOutcome,
                            response |-> <<>>, replies |-> <<>>, escaped |-> FALSE]
                /\ UNCHANGED <<threads, _checkpointer, _agent_ref, made, calls, store>>
           ELSE \E r \in {answer_question(text, StrVal(ThreadIdOf(message.chat_id)),
                                            _checkpointer, _agent_ref, made, threads,
                                            store, COLLECTION_NAME, turn, fault)} :
                \E got \in {AnswerOrApology(r.outcome)} :
                    /\ chat' = [pc |-> "returned", handled |-> chat.handled + 1,
                                chat_id |-> message.chat_id, text |-> text, typing |-> TRUE,
                                invocations |-> r.invocations, answered |-> r.outcome,
                                response |-> r.response,
                                replies |-> IF got.kind = "raise" THEN <<>>
                                            ELSE SendChunks(got.value),
                                escaped |-> got.kind = "raise"]
                    /\ threads' = r.threads
                    /\ _checkpointer' = r.got._checkpointer
                    /\ _agent_ref' = r.got._agent_ref
                    /\ made' = r.got.made
                    /\ calls' = r.calls
                    /\ store' = StoreAfter(store, r.calls)
    /\ UNCHANGED <<harnesses, ALL_TOOLS, answers, COLLECTION_NAME, built, call, outcome,
                   tasks, split>>

InitBot ==
    /\ norm = NormIdle
    /\ fmt = FmtIdle
    /\ ALL_TOOLS = RegistryAtImport
    /\ threads = [t \in BotThreadIds |-> <<>>]
    /\ answers = {}
    /\ InitFront
    /\ store = StoreOf(<<"str">>)
    /\ COLLECTION_NAME = "uk_1996"
    /\ built = BuiltAtImport
    /\ call = NoCall
    /\ calls = <<>>
    /\ outcome = NoOutcome

\* What happens behind a message: a turn of the model, or a fault before any turn.
Happenings ==
    {h \in [turn : Turns, fault : AgentFaults] : h.fault # "none" => h.turn = "direct"}

NextBot ==
    \E message \in Messages, h \in Happenings :
        handle_user_message(message, h.turn, h.fault)

SpecBot == InitBot /\ [][NextBot]_vars

----------------------------------------------------------------------------
(* C27 *)

\* A message has been handled.
Handled == chat.pc = "returned"

\* Every character of the handled message is whitespace.
OnlyWhitespace == \A i \in 1..Len(chat.text) : chat.text[i] \in {" ", "\t", "\n"}

\* What the handler has to say: the answer, or the apology for the exception.
Due ==
    IF chat.answered.kind = "raise"
    THEN Chars("Sorry, I couldn't process that right now. Error: ") \o chat.answered.value
    ELSE chat.answered.value

\* C27: the handler replies if and only if the text is non-blank. A blank or
\* whitespace-only message makes no agent call and gets no reply; a non-blank one
\* gets at least one reply, the replies are the chunks of the answer in order, and an
\* exception of answering becomes an apology reply and does not leave the handler.
C27_RepliesIffNonBlank ==
    Handled =>
        /\ ~chat.escaped
        /\ OnlyWhitespace =>
              /\ chat.replies = <<>>
              /\ chat.invocations = <<>>
              /\ chat.answered = NoOutcome
        /\ ~OnlyWhitespace =>
              /\ Len(chat.replies) >= 1
              /\ chat.answered # NoOutcome
              /\ Concat(chat.replies) = Due
              /\ \A i \in 1..Len(chat.replies) :
                    /\ chat.replies[i] # <<>>
                    /\ Len(chat.replies[i]) <= 4000

\* Answering raised, and the one reply is the apology that carries the exception.
C27_Witness ==
    /\ Handled /\ ~OnlyWhitespace
    /\ chat.answered.kind = "raise"
    /\ Len(chat.replies) = 1
    /\ StartsWith(chat.replies[1], Chars("Sorry"))
    /\ EndsWith(chat.replies[1], chat.answered.value)

----------------------------------------------------------------------------
(* C28 *)

\* C28: over the get_agent calls of one process, the agent and the checkpointer are
\* each built at most once, and every call that returns, returns the same agent,
\* which is the one kept in _agent_ref and is bound to the checkpointer kept in
\* _checkpointer.
C28_OneAgentOneCheckpointer ==
    /\ made.savers <= 1
    /\ made.agents <= 1
    /\ \A i \in 1..Len(made.returned) :
          /\ made.returned[i] = made.returned[1]
          /\ made.returned[i] = _agent_ref["agent"]
          /\ made.returned[i].checkpointer = _checkpointer
          /\ _checkpointer # NoneRef

\* Three calls: one built the checkpointer and failed to build the agent, the
\* other two returned the agent.
C28_Witness ==
    /\ made.calls = 3
    /\ Len(made.returned) = 2
    /\ made.savers = 1
    /\ made.agents = 1

----------------------------------------------------------------------------
(* C29 *)

\* answer_question has returned for the handled message.
Answered == Handled /\ chat.answered.kind = "return"

\* The positions of the AI messages with non-empty content in the response.
AnswersIn(messages) ==
    {i \in 1..Len(messages) :
        messages[i].cls = "AIMessage" /\ messages[i].content.s # <<>>}

Last(positions) == CHOOSE i \in positions : \A j \in positions : j <= i

\* C29: answer_question returns the content of the last AI message with non-empty
\* content in the agent's response, and the fixed fallback sentence when the
\* response has none; the result is never empty and never the content of a user
\* or tool message.
C29_LastAIContentOrFallback ==
    Answered =>
        LET messages == chat.response
            result == chat.answered.value
        IN  /\ AnswersIn(messages) # {} =>
                  result = messages[Last(AnswersIn(messages))].content.s
            /\ AnswersIn(messages) = {} =>
                  result = Chars("I was unable to generate an answer. Please try rephrasing your request.")
            /\ result # <<>>
            /\ \A i \in 1..Len(messages) :
                  messages[i].cls \in {"HumanMessage", "ToolMessage"} =>
                      result # messages[i].content.s

\* The response ends with a tool result and a silent AI message, and the answer is
\* that of an earlier AI message.
C29_Witness ==
    /\ Answered
    /\ Len(chat.response) >= 4
    /\ chat.response[Len(chat.response)].cls = "AIMessage"
    /\ chat.response[Len(chat.response)].content.s = <<>>
    /\ chat.response[Len(chat.response) - 1].cls = "ToolMessage"
    /\ AnswersIn(chat.response) # {}
    /\ chat.answered.value = chat.response[Last(AnswersIn(chat.response))].content.s

----------------------------------------------------------------------------
(* C30 *)

\* The thread id an invocation of the agent carries.
ThreadOf(invocation) == get(get(invocation.config, "configurable"), "thread_id")

\* C30: memory is scoped per chat. Every invocation of the agent made for a message
\* of chat C carries the thread id str(C), which is the thread id of no other chat,
\* and handling a message changes the remembered thread of its own chat only.
C30_ThreadIsTheChat ==
    /\ [](Handled =>
            \A i \in 1..Len(chat.invocations) :
                /\ ThreadOf(chat.invocations[i]) = StrVal(StrOfInt(chat.chat_id))
                /\ \A c \in ChatIds \ {chat.chat_id} :
                      ThreadOf(chat.invocations[i]) # StrVal(StrOfInt(c)))
    /\ [][\A t \in DOMAIN threads :
            threads'[t] # threads[t] => t = StrOfInt(chat'.chat_id)]_vars

\* Both chats have a remembered thread, and the message just handled, of the group
\* chat, was answered under the thread "-5".
C30_Witness ==
    /\ Handled
    /\ chat.chat_id = 0 - 5
    /\ Len(chat.invocations) = 1
    /\ ThreadOf(chat.invocations[1]) = StrVal(<<"-", "5">>)
    /\ threads[<<"5">>] # <<>>
    /\ threads[<<"-", "5">>] # <<>>

====
